---- MODULE Spec2Model ----
(***************************************************************************)
(* Gesture tools of simple_mpc_server.                                     *)
(*                                                                         *)
(* CameraTool._analyze_gesture_stability reduces a window of per-frame     *)
(* readings to one gesture label; camera_detect_gesture_stable collects    *)
(* that window from GestureTracker.stream() for a wall-clock duration.     *)
(* gesture_tracker/analysis.py computes the per-frame features from the    *)
(* hand landmarks.  ThinkerTool draws on a Tk canvas from a command queue. *)
(*                                                                         *)
(* Specifications: SpecStabilizer (one call of the stabilizer, repeated),  *)
(* Spec (camera_detect_gesture_stable), SpecExtractor (HandAnalyzer),      *)
(* SpecAngle (angle_deg, _unit), SpecRightAngle (is_right_angle),          *)
(* SpecThinker (ThinkerTool), SpecRobot (RobotTool), SpecConfidence (the stabilizer on windows    *)
(* spread over all finger counts).                                         *)
(*                                                                         *)
(* Python floats are modelled as exact fractions <<numerator, denominator>>*)
(* (the quotients a/N, their mean, and the literals 0.7 and 0.8 compare    *)
(* the same way in IEEE doubles for every window length used here).        *)
(* Python strings with Polish diacritics are written in ASCII.             *)
(***************************************************************************)
EXTENDS Integers, Sequences, FiniteSets, TLC

VARIABLES
    readings,              \* argument of _analyze_gesture_stability
    min_confidence_ratio,  \* CameraTool.min_confidence_ratio
    call_state,            \* "idle" | "pending" | "returned" | "raised" | "returned_again"
    result,                \* value returned by _analyze_gesture_stability
    mode_path,             \* branch of the try/except around mode(): "none" | "mode" | "fallback"
    pc,                    \* position of camera_detect_gesture_stable
    raw_readings,          \* the window collected by camera_detect_gesture_stable
    start_time,            \* start_time of the invocation
    now,                   \* wall clock, time.time()
    duration,              \* argument of camera_detect_gesture_stable
    cam,                   \* Camera._cap: "none" | "open" | "dead"
    dropout_at,            \* history, kept while the window is collected: len(raw_readings)
                           \* when the last frame without a hand was yielded, -1 if none
    response,              \* the decoded JSON record returned by the tool
    stability_window_seconds,  \* CameraTool.stability_window_seconds
    first_result,          \* result of the first of two calls on the same readings
    landmarks,             \* argument of the HandAnalyzer methods: a list of <<x, y, z>>
    v1, v2,                \* arguments of angle_deg
    ang, min_deg, max_deg, \* arguments of is_right_angle, in tenths of a degree
    fn,                    \* the function of analysis.py that was called, "none" before the call
    ret,                   \* what that call returned or raised
    _running,              \* ThinkerTool._running
    _queue,                \* ThinkerTool._queue
    _history,              \* ThinkerTool._history
    _redo_stack,           \* ThinkerTool._redo_stack
    canvas,                \* canvas[k]: the items on the tk.Canvas of the k-th session, oldest first
    ui,                    \* ui[k]: the thread running _run_ui for the k-th session:
                           \* "started" | "mainloop" | "closing" | "ended"
    _port,                 \* RobotTool._port, "" when not set
    _board,                \* RobotTool._board: None or the ArduinoBoard
    wire,                  \* what has been written to serial ports, oldest first
    opens,                 \* how many times serial.Serial(...) has been called
    reply,                 \* the ToolResponse of the last robot tool that returned
    disconnected           \* history: robot_disconnect has succeeded and robot_connect
                           \* has not been called since

vars == <<readings, min_confidence_ratio, call_state, result, mode_path,
          pc, raw_readings, start_time, now, duration, cam, dropout_at, response,
          stability_window_seconds, first_result,
          landmarks, v1, v2, ang, min_deg, max_deg, fn, ret,
          _running, _queue, _history, _redo_stack, canvas, ui,
          _port, _board, wire, opens, reply, disconnected>>

stab_vars == <<readings, call_state, result, mode_path>>
tool_vars == <<pc, raw_readings, start_time, now, duration, cam, dropout_at, response>>

\* state of gesture_tracker/analysis.py and of ThinkerTool
analysis_vars == <<landmarks, v1, v2, ang, min_deg, max_deg, fn, ret>>
thinker_vars == <<_running, _queue, _history, _redo_stack, canvas, ui>>
robot_vars == <<_port, _board, wire, opens, reply, disconnected>>

\* state that neither the stabilizer nor camera_detect_gesture_stable writes
other_vars == <<stability_window_seconds, first_result, analysis_vars, thinker_vars,
                robot_vars>>

\* state of CameraTool
camera_vars == <<readings, min_confidence_ratio, call_state, result, mode_path,
                 pc, raw_readings, start_time, now, duration, cam, dropout_at, response,
                 stability_window_seconds, first_result>>

----------------------------------------------------------------------------
(* Bounds *)

MaxWindow == 2        \* longest window over the full reading alphabet
MaxMidWindow == 3     \* longest window over a three-reading alphabet
MaxSpread == 6        \* longest window of the confidence runs
MaxLongWindow == 10   \* longest window over a two-reading alphabet
MaxReadings == 2      \* longest window camera_detect_gesture_stable collects
MaxTime == 2          \* last clock tick

----------------------------------------------------------------------------
(* Exact fractions standing for Python floats *)

Frac(n, d) == <<n, d>>
FracAdd(p, q) == <<p[1] * q[2] + q[1] * p[2], p[2] * q[2]>>
FracHalf(p) == <<p[1], 2 * p[2]>>
FracLess(p, q) == p[1] * q[2] < q[1] * p[2]

\* round-half-even of p * scale to an integer (Python round / format)
RoundHalfEven(p, scale) ==
    LET n == p[1] * scale
        q == n \div p[2]
        r == n % p[2]
    IN  IF 2 * r < p[2] THEN q
        ELSE IF 2 * r > p[2] THEN q + 1
        ELSE IF q % 2 = 0 THEN q ELSE q + 1

\* round(x, 2), kept as hundredths
Round2(p) == Frac(RoundHalfEven(p, 100), 100)

DefaultMinConfidenceRatio == Frac(7, 10)
DefaultStabilityWindowSeconds == Frac(8, 10)
FistThreshold == Frac(8, 10)

----------------------------------------------------------------------------
(* statistics.mode and list.count *)

\* list.count(v)
Count(data, v) == Cardinality({i \in DOMAIN data : data[i] = v})

\* statistics.mode raises StatisticsError on empty data only (Python >= 3.8;
\* the repository needs >= 3.12 for "class ToolResponse[T]").
ModeRaisesOnTies(data) ==
    \/ data = <<>>
    \/ \E i, j \in DOMAIN data :
          /\ data[i] # data[j]
          /\ Count(data, data[i]) = Count(data, data[j])
          /\ \A k \in DOMAIN data : Count(data, data[k]) <= Count(data, data[i])

ModeRaises(data) == data = <<>>

\* mutants of Mode: the last of the tied values; the value of the last reading
ModeLastTied(data) ==
    LET best == CHOOSE i \in DOMAIN data :
                  /\ \A j \in DOMAIN data : Count(data, data[j]) <= Count(data, data[i])
                  /\ \A j \in DOMAIN data :
                        (j > i /\ data[j] # data[i]) => Count(data, data[j]) < Count(data, data[i])
    IN  data[best]

\* statistics.mode: Counter(data).most_common(1): the most frequent value,
\* the first encountered among equally frequent ones.
Mode(data) ==
    LET best == CHOOSE i \in DOMAIN data :
                  /\ \A j \in DOMAIN data : Count(data, data[j]) <= Count(data, data[i])
                  /\ \A j \in DOMAIN data : j < i => Count(data, data[j]) < Count(data, data[i])
    IN  data[best]

----------------------------------------------------------------------------
(* CameraTool._analyze_gesture_stability *)

\* r['count'] or r['is_fist'] raises KeyError
KeyErrorIn(rs) ==
    \E i \in DOMAIN rs : ~ ({"count", "is_fist"} \subseteq DOMAIN rs[i])

FingerCounts(rs) == [i \in DOMAIN rs |-> rs[i].count]
IsFists(rs) == [i \in DOMAIN rs |-> rs[i].is_fist]

\* mutant of FingerPatterns: the pattern keeps the reading's timestamp
FingerPatternsTimed(rs) ==
    LET carrying == SelectSeq(rs, LAMBDA r : "up" \in DOMAIN r)
    IN  [i \in DOMAIN carrying |->
            IF "timestamp" \in DOMAIN carrying[i]
            THEN <<ToString(carrying[i].timestamp)>> \o carrying[i].up
            ELSE carrying[i].up]

\* [tuple(r.get('up', [])) for r in readings if 'up' in r]
FingerPatterns(rs) ==
    LET carrying == SelectSeq(rs, LAMBDA r : "up" \in DOMAIN r)
    IN  [i \in DOMAIN carrying |-> carrying[i].up]

\* the try/except around mode()
DominantPath(rs) ==
    IF ModeRaises(FingerCounts(rs)) \/ ModeRaises(IsFists(rs)) THEN "fallback" ELSE "mode"

DominantCount(rs) ==
    LET finger_counts == FingerCounts(rs)
    IN  IF DominantPath(rs) = "mode" THEN Mode(finger_counts)
        ELSE IF finger_counts # <<>> THEN finger_counts[Len(finger_counts)] ELSE 0

DominantFist(rs) ==
    LET is_fists == IsFists(rs)
    IN  IF DominantPath(rs) = "mode" THEN Mode(is_fists)
        ELSE IF is_fists # <<>> THEN is_fists[Len(is_fists)] ELSE FALSE

CountConfidenceOfLast(rs) ==
    Frac(Count(FingerCounts(rs), FingerCounts(rs)[Len(rs)]), Len(rs))

CountConfidence(rs) ==
    Frac(Count(FingerCounts(rs), DominantCount(rs)), Len(FingerCounts(rs)))

\* mutant of FistConfidence: the share of the readings that are fists
FistConfidenceOfTrue(rs) ==
    Frac(Count(IsFists(rs), TRUE), Len(IsFists(rs)))

FistConfidence(rs) ==
    Frac(Count(IsFists(rs), DominantFist(rs)), Len(IsFists(rs)))

OverallConfidence(rs) == FracHalf(FracAdd(CountConfidence(rs), FistConfidence(rs)))

\* f"{dominant_count}_fingers"
CountLabel(dominant_count) == ToString(dominant_count) \o "_fingers"

\* mutant of DetectedGesture: the fist rule tried before the stability rule,
\* and the finger-count-0 rule before the fist rule
DetectedGestureReordered(rs, ratio) ==
    LET dominant_count == DominantCount(rs)
    IN  IF dominant_count = 0 THEN "open_palm_or_no_hand"
        ELSE IF DominantFist(rs) /\ FracLess(FistThreshold, FistConfidence(rs)) THEN "fist"
        ELSE IF FracLess(OverallConfidence(rs), ratio) THEN "unstable"
        ELSE IF dominant_count = 1 THEN "one_finger"
        ELSE IF dominant_count = 2 THEN "two_fingers"
        ELSE IF dominant_count = 5 THEN "open_hand"
        ELSE CountLabel(dominant_count)

\* mutant of DetectedGesture: both thresholds inclusive
DetectedGestureInclusive(rs, ratio) ==
    LET dominant_count == DominantCount(rs)
    IN  IF ~ FracLess(ratio, OverallConfidence(rs)) THEN "unstable"
        ELSE IF DominantFist(rs) /\ ~ FracLess(FistConfidence(rs), FistThreshold) THEN "fist"
        ELSE IF dominant_count = 0 THEN "open_palm_or_no_hand"
        ELSE IF dominant_count = 1 THEN "one_finger"
        ELSE IF dominant_count = 2 THEN "two_fingers"
        ELSE IF dominant_count = 5 THEN "open_hand"
        ELSE CountLabel(dominant_count)

DetectedGesture(rs, ratio) ==
    LET dominant_count == DominantCount(rs)
    IN  IF FracLess(OverallConfidence(rs), ratio) THEN "unstable"
        ELSE IF DominantFist(rs) /\ FracLess(FistThreshold, FistConfidence(rs)) THEN "fist"
        ELSE IF dominant_count = 0 THEN "open_palm_or_no_hand"
        ELSE IF dominant_count = 1 THEN "one_finger"
        ELSE IF dominant_count = 2 THEN "two_fingers"
        ELSE IF dominant_count = 5 THEN "open_hand"
        ELSE CountLabel(dominant_count)

\* mutant of ActiveFingers: always present, empty when no pattern was seen
ActiveFingersAlways(rs) ==
    LET finger_patterns == FingerPatterns(rs)
    IN  IF finger_patterns # <<>>
        THEN "active_fingers" :> Mode(finger_patterns)
        ELSE "active_fingers" :> <<>>

\* mutant of ActiveFingers: the vote is held among the readings that have the
\* dominant finger count
ActiveFingersOfDominantCount(rs) ==
    LET finger_patterns ==
            FingerPatterns(SelectSeq(rs, LAMBDA r : r.count = DominantCount(rs)))
    IN  IF finger_patterns # <<>>
        THEN "active_fingers" :> Mode(finger_patterns)
        ELSE <<>>

\* the "active_fingers" entry of details (no entry when no reading has 'up')
ActiveFingers(rs) ==
    LET finger_patterns == FingerPatterns(rs)
    IN  IF finger_patterns # <<>>
        THEN IF ModeRaises(finger_patterns)
             THEN "active_fingers" :> <<>>
             ELSE "active_fingers" :> Mode(finger_patterns)
        ELSE <<>>

\* mutant of Details: the sample count is the number of agreeing readings
DetailsAgreeing(rs, ratio) ==
    [dominant_finger_count |-> DominantCount(rs),
     is_dominant_fist |-> DominantFist(rs),
     raw_readings_count |-> Count(FingerCounts(rs), DominantCount(rs)),
     stability_score |-> Round2(OverallConfidence(rs))]
    @@ ActiveFingers(rs)

Details(rs, ratio) ==
    [dominant_finger_count |-> DominantCount(rs),
     is_dominant_fist |-> DominantFist(rs),
     raw_readings_count |-> Len(rs),
     stability_score |-> Round2(OverallConfidence(rs))]
    @@ (IF FracLess(OverallConfidence(rs), ratio)
        THEN "reason" :> "Zbyt duza zmiennosc wykrycia"
        ELSE <<>>)
    @@ ActiveFingers(rs)

\* mutant of EmptyResult: the empty window falls through to "unknown"
EmptyResultUnknown == [gesture |-> "unknown", confidence |-> Frac(0, 1), details |-> <<>>]

\* the early return for "not readings"
EmptyResult == [gesture |-> "none", confidence |-> Frac(0, 1), details |-> <<>>]

_analyze_gesture_stability(rs, ratio) ==
    IF rs = <<>> THEN EmptyResult
    ELSE [gesture |-> DetectedGesture(rs, ratio),
          confidence |-> OverallConfidence(rs),
          details |-> Details(rs, ratio)]

----------------------------------------------------------------------------
(* Readings *)

FingerNames == <<"Kciuk", "Wskazujacy", "Srodkowy", "Serdeczny", "Maly">>

\* fingers_up vector [thumb, index, middle, ring, pinky] with the fingers of S up
Shape(S) == [i \in 1..5 |-> i \in S]

\* [n for n, f in zip(finger_names, hand.fingers_up) if f]
UpNames(fingers_up) ==
    LET n == IF Len(fingers_up) < Len(FingerNames) THEN Len(fingers_up) ELSE Len(FingerNames)
        idx == SelectSeq([i \in 1..n |-> i], LAMBDA i : fingers_up[i])
    IN  [k \in DOMAIN idx |-> FingerNames[idx[k]]]

\* sum(fingers_up)
CountFingers(fingers_up) == Cardinality({i \in DOMAIN fingers_up : fingers_up[i]})

\* HandResult as built by GestureTracker.detect
HandResult(fingers_up, is_fist) ==
    [fingers_up |-> fingers_up,
     finger_count |-> CountFingers(fingers_up),
     is_fist |-> is_fist]

HandShapes ==
    {Shape({}), Shape({2}), Shape({2, 3}), Shape({2, 4}), Shape({2, 3, 4}),
     Shape({2, 3, 4, 5}), Shape({1, 2, 3, 4, 5})}

\* readings as camera_detect_gesture_stable builds them, without the timestamp
PatternReadings ==
    {[count |-> CountFingers(s), is_fist |-> f, up |-> UpNames(s)] :
        s \in HandShapes, f \in BOOLEAN}

\* readings that carry no finger pattern
BareReadings == {[count |-> c, is_fist |-> f] : c \in {0, 3}, f \in BOOLEAN}

\* a reading without 'count'
MalformedReadings == {[is_fist |-> FALSE]}

StabReadings == PatternReadings \cup BareReadings \cup MalformedReadings

R(c, f) == [count |-> c, is_fist |-> f]

LongAlphabets ==
    {{R(2, FALSE), R(0, FALSE)}, {R(3, FALSE), R(0, FALSE)},
     {R(0, TRUE), R(0, FALSE)}, {R(5, FALSE), R(3, TRUE)}}

WindowsOver(A, n) == UNION {[1..k -> A] : k \in 0..n}

MidAlphabets ==
    {{R(2, FALSE), R(5, FALSE), R(0, TRUE)},
     {R(2, FALSE),
      [count |-> 2, is_fist |-> FALSE, up |-> UpNames(Shape({2, 3}))],
      [count |-> 2, is_fist |-> FALSE, up |-> UpNames(Shape({2, 4}))]},
     {[count |-> 3, is_fist |-> FALSE, up |-> UpNames(Shape({2, 3, 4}))],
      [count |-> 2, is_fist |-> FALSE, up |-> UpNames(Shape({2, 3}))],
      [count |-> 2, is_fist |-> FALSE, up |-> UpNames(Shape({2, 4}))]}}

StabWindows ==
    WindowsOver(StabReadings, MaxWindow)
    \cup UNION {WindowsOver(A, MaxMidWindow) : A \in MidAlphabets}
    \cup UNION {WindowsOver(A, MaxLongWindow) : A \in LongAlphabets}

Ratios == {Frac(1, 2), DefaultMinConfidenceRatio, Frac(1, 1)}

NoResult == [gesture |-> "", confidence |-> Frac(0, 1), details |-> <<>>]
NoResponse == [success |-> FALSE, data |-> <<>>, description |-> ""]

\* no function of analysis.py has been called
NoAnalysis ==
    /\ landmarks = <<>>
    /\ v1 = <<0, 0, 0>>
    /\ v2 = <<0, 0, 0>>
    /\ ang = 0
    /\ min_deg = 750
    /\ max_deg = 1050
    /\ fn = "none"
    /\ ret = <<>>

\* ThinkerTool.__init__
NoThinker ==
    /\ _running = FALSE
    /\ _queue = <<>>
    /\ _history = <<>>
    /\ _redo_stack = <<>>
    /\ canvas = <<>>
    /\ ui = <<>>

\* RobotTool(): no port, no board; nothing has been written
NoRobot ==
    /\ _port = ""
    /\ _board = <<>>
    /\ wire = <<>>
    /\ opens = 0
    /\ reply = [tool |-> "none", success |-> FALSE]
    /\ disconnected = FALSE

----------------------------------------------------------------------------
(* Direct calls of the stabilizer *)

InitStabilizer ==
    /\ readings \in StabWindows
    /\ min_confidence_ratio \in Ratios
    /\ call_state = "pending"
    /\ result = NoResult
    /\ mode_path = "none"
    /\ pc = "idle"
    /\ raw_readings = <<>>
    /\ start_time = 0
    /\ now = 0
    /\ duration = 0
    /\ cam = "none"
    /\ dropout_at = 0 - 1
    /\ response = NoResponse
    /\ stability_window_seconds = DefaultStabilityWindowSeconds
    /\ first_result = NoResult
    /\ NoAnalysis
    /\ NoThinker
    /\ NoRobot

\* mutant of AnalyzeGestureStability: the call pops the last reading
AnalyzeGestureStabilityConsuming ==
    /\ call_state = "pending"
    /\ IF readings # <<>> /\ KeyErrorIn(readings)
       THEN /\ call_state' = "raised"
            /\ UNCHANGED <<result, mode_path>>
       ELSE /\ call_state' = "returned"
            /\ result' = _analyze_gesture_stability(readings, min_confidence_ratio)
            /\ mode_path' = IF readings = <<>> THEN "none" ELSE DominantPath(readings)
    /\ readings' = SubSeq(readings, 1, Len(readings) - 1)
    /\ UNCHANGED <<min_confidence_ratio, other_vars>>
    /\ UNCHANGED tool_vars

AnalyzeGestureStability ==
    /\ call_state = "pending"
    /\ IF readings # <<>> /\ KeyErrorIn(readings)
       THEN /\ call_state' = "raised"
            /\ UNCHANGED <<result, mode_path>>
       ELSE /\ call_state' = "returned"
            /\ result' = _analyze_gesture_stability(readings, min_confidence_ratio)
            /\ mode_path' = IF readings = <<>> THEN "none" ELSE DominantPath(readings)
    /\ UNCHANGED <<readings, min_confidence_ratio, other_vars>>
    /\ UNCHANGED tool_vars

\* a second call with the same list and the same tool
AnalyzeAgain ==
    /\ call_state = "returned"
    /\ call_state' = "returned_again"
    /\ first_result' = result
    /\ result' = _analyze_gesture_stability(readings, min_confidence_ratio)
    /\ UNCHANGED <<readings, min_confidence_ratio, mode_path, stability_window_seconds>>
    /\ UNCHANGED <<tool_vars, analysis_vars, thinker_vars, robot_vars>>

NextStabilizer == AnalyzeGestureStability \/ AnalyzeAgain

SpecStabilizer == InitStabilizer /\ [][NextStabilizer]_vars

----------------------------------------------------------------------------
(* Direct calls of the stabilizer on windows that spread over the finger   *)
(* counts 0..5                                                             *)

\* the finger counts of a window, up to renaming: a count is new only if it
\* is the least count not seen before
CountRows(n) ==
    {c \in [1..n -> 0..5] :
        \A i \in 1..n : \A v \in 0..(c[i] - 1) : \E j \in 1..(i - 1) : c[j] = v}

\* the is_fist flags of a window: the first k readings are fists
FistRows(n) == {[i \in 1..n |-> i <= k] : k \in 0..n}

SpreadWindows ==
    UNION {{[i \in 1..n |-> R(c[i], f[i])] : c \in CountRows(n), f \in FistRows(n)} :
           n \in 0..MaxSpread}

LowRatios == {Frac(1, 4), Frac(1, 3), DefaultMinConfidenceRatio}

InitConfidence ==
    /\ readings \in SpreadWindows
    /\ min_confidence_ratio \in LowRatios
    /\ call_state = "pending"
    /\ result = NoResult
    /\ mode_path = "none"
    /\ pc = "idle"
    /\ raw_readings = <<>>
    /\ start_time = 0
    /\ now = 0
    /\ duration = 0
    /\ cam = "none"
    /\ dropout_at = 0 - 1
    /\ response = NoResponse
    /\ stability_window_seconds = DefaultStabilityWindowSeconds
    /\ first_result = NoResult
    /\ NoAnalysis
    /\ NoThinker
    /\ NoRobot

SpecConfidence == InitConfidence /\ [][NextStabilizer]_vars

----------------------------------------------------------------------------
(* camera_detect_gesture_stable *)

None == <<>>

NumHands == 2

CameraShapes == {Shape({}), Shape({2, 3})}

\* hands the detector can report in one frame
CameraHands == {HandResult(s, f) : s \in CameraShapes, f \in BOOLEAN}

\* results.hands of one frame: at most num_hands hands
FrameHands == UNION {[1..k -> CameraHands] : k \in 0..NumHands}

Durations == {0, 1, 2}

\* the reading built from one hand of a frame observed at current_time
Reading(hand, current_time) ==
    [timestamp |-> current_time,
     count |-> hand.finger_count,
     is_fist |-> hand.is_fist,
     up |-> IF hand.fingers_up # <<>> THEN UpNames(hand.fingers_up) ELSE <<>>]

\* ', '.join(names)
JoinNames(names) ==
    LET RECURSIVE join(_)
        join(k) == IF k = 0 THEN ""
                   ELSE IF k = 1 THEN names[1]
                   ELSE join(k - 1) \o ", " \o names[k]
    IN  join(Len(names))

\* f"{x:.0%}"
Percent(p) == ToString(RoundHalfEven(p, 100)) \o "%"

\* the record returned when the window is empty
NoHandResponse ==
    [success |-> TRUE,
     data |-> [gesture |-> "no_hand_detected", confidence |-> Frac(0, 1)],
     description |-> "Nie wykryto zadnej dloni w podanym czasie."]

\* the record built from the stabilizer's result
AnalysisResponse(rs, ratio) ==
    LET analysis_result == _analyze_gesture_stability(rs, ratio)
        active == IF "active_fingers" \in DOMAIN analysis_result.details
                  THEN analysis_result.details.active_fingers ELSE <<>>
    IN  [success |-> TRUE,
         data |-> [gesture |-> analysis_result.gesture,
                   confidence |-> analysis_result.confidence,
                   details |-> analysis_result.details,
                   samples_analyzed |-> Len(rs)],
         description |-> "Wykryto gest: " \o analysis_result.gesture
                         \o " (Pewnosc: " \o Percent(analysis_result.confidence) \o ")"
                         \o (IF active # <<>>
                             THEN " - Aktywne: " \o JoinNames(active) ELSE "")]

\* mutant of StableResponse: the empty window is handed to the stabilizer too
StableResponseAlwaysAnalysed(rs, ratio) == AnalysisResponse(rs, ratio)

\* what the tool returns once collection has ended
StableResponse(rs, ratio) ==
    IF rs = <<>> THEN NoHandResponse ELSE AnalysisResponse(rs, ratio)

\* the record returned from the except branch
ErrorResponse(e) ==
    [success |-> FALSE, data |-> None, description |-> "Krytyczny blad: " \o e]

\* whether mode(is_fists) is a numpy.bool_: HandAnalyzer.is_fist returns the
\* Python False when hand_scale < 1e-6 or fewer than three fingers are folded,
\* and otherwise thumb_condition, a comparison of numpy.float32 distances; so
\* True is always a numpy.bool_, and for False `numpy` tells which of the two
\* the first reading with is_fist false carries
NumpyDominantFist(rs, numpy) == rs # <<>> /\ (DominantFist(rs) \/ numpy)

\* CameraTool.__init__: the tool has not been called
NoCamera ==
    /\ readings = <<>>
    /\ min_confidence_ratio = DefaultMinConfidenceRatio
    /\ call_state = "idle"
    /\ result = NoResult
    /\ mode_path = "none"
    /\ pc = "idle"
    /\ raw_readings = <<>>
    /\ start_time = 0
    /\ now = 0
    /\ duration = 0
    /\ cam = "none"
    /\ dropout_at = 0 - 1
    /\ response = NoResponse
    /\ stability_window_seconds = DefaultStabilityWindowSeconds
    /\ first_result = NoResult

Init ==
    /\ NoCamera
    /\ NoAnalysis
    /\ NoThinker
    /\ NoRobot

\* the tool is called: raw_readings = [], start_time = time.time()
Invoke(d) ==
    /\ pc \in {"idle", "done"}
    /\ pc' = "opening"
    /\ raw_readings' = <<>>
    /\ start_time' = now
    /\ duration' = d
    /\ cam' = "none"
    /\ dropout_at' = 0 - 1
    /\ response' = NoResponse
    /\ readings' = <<>>
    /\ call_state' = "idle"
    /\ result' = NoResult
    /\ mode_path' = "none"
    /\ UNCHANGED <<now, min_confidence_ratio, other_vars>>

\* GestureTracker(detect_modes=["hands"]) opens the camera; __enter__
OpenCamera(t) ==
    /\ pc = "opening"
    /\ t \in now..MaxTime
    /\ now' = t
    /\ cam' = "open"
    /\ pc' = "streaming"
    /\ UNCHANGED <<raw_readings, start_time, duration, response, min_confidence_ratio, other_vars>>
    /\ UNCHANGED <<stab_vars, dropout_at>>

\* Camera.open raises RuntimeError: the capture exists but is not opened
OpenCameraFails(t) ==
    /\ pc = "opening"
    /\ t \in now..MaxTime
    /\ now' = t
    /\ cam' = "unopened"
    /\ response' = ErrorResponse("Nie udalo sie otworzyc kamery (device_id=0)")
    /\ pc' = "done"
    /\ UNCHANGED <<raw_readings, start_time, duration, min_confidence_ratio, other_vars>>
    /\ UNCHANGED <<stab_vars, dropout_at>>

\* stream(): Camera.read returns None, process_frame returns None, continue
ReadFails(t) ==
    /\ pc = "streaming"
    /\ cam = "open"
    /\ t \in now..MaxTime
    /\ now' = t
    /\ UNCHANGED <<pc, raw_readings, start_time, duration, cam, response, min_confidence_ratio, other_vars>>
    /\ UNCHANGED <<stab_vars, dropout_at>>

\* mutant of Frame: the elapsed time is not compared with the duration
FrameUnbounded(hands, t, quit) ==
    /\ pc = "streaming"
    /\ cam = "open"
    /\ t \in now..MaxTime
    /\ Len(raw_readings) + Len(hands) <= MaxReadings
    /\ now' = t
    /\ raw_readings' = raw_readings \o [i \in DOMAIN hands |-> Reading(hands[i], t)]
    /\ dropout_at' = IF hands = <<>> THEN Len(raw_readings) ELSE dropout_at
    /\ IF quit
       THEN pc' = "collected" /\ cam' = "none"
       ELSE pc' = "streaming" /\ cam' = cam
    /\ UNCHANGED <<start_time, duration, response, min_confidence_ratio, other_vars>>
    /\ UNCHANGED stab_vars

\* mutant of Frame: a frame without a hand starts the window afresh
FrameResetsOnDropout(hands, t, quit) ==
    /\ pc = "streaming"
    /\ cam = "open"
    /\ t \in now..MaxTime
    /\ ~ (t - start_time > duration)
    /\ Len(raw_readings) + Len(hands) <= MaxReadings
    /\ now' = t
    /\ raw_readings' = IF hands = <<>> THEN <<>>
                       ELSE raw_readings \o [i \in DOMAIN hands |-> Reading(hands[i], t)]
    /\ dropout_at' = IF hands = <<>> THEN Len(raw_readings) ELSE dropout_at
    /\ IF quit
       THEN pc' = "collected" /\ cam' = "none"
       ELSE pc' = "streaming" /\ cam' = cam
    /\ UNCHANGED <<start_time, duration, response, min_confidence_ratio, other_vars>>
    /\ UNCHANGED stab_vars

\* one frame is yielded within the duration: a reading is appended for each
\* hand; then the generator resumes and tests the quit key
Frame(hands, t, quit) ==
    /\ pc = "streaming"
    /\ cam = "open"
    /\ t \in now..MaxTime
    /\ ~ (t - start_time > duration)
    /\ Len(raw_readings) + Len(hands) <= MaxReadings
    /\ now' = t
    /\ raw_readings' = raw_readings \o [i \in DOMAIN hands |-> Reading(hands[i], t)]
    /\ dropout_at' = IF hands = <<>> THEN Len(raw_readings) ELSE dropout_at
    /\ IF quit
       THEN pc' = "collected" /\ cam' = "none"
       ELSE pc' = "streaming" /\ cam' = cam
    /\ UNCHANGED <<start_time, duration, response, min_confidence_ratio, other_vars>>
    /\ UNCHANGED stab_vars

\* mutant of FrameAfterDuration: the loop is left without releasing the camera
FrameAfterDurationKeepsCamera(hands, t) ==
    /\ pc = "streaming"
    /\ cam = "open"
    /\ t \in now..MaxTime
    /\ t - start_time > duration
    /\ now' = t
    /\ pc' = "collected"
    /\ UNCHANGED <<raw_readings, start_time, duration, cam, response, min_confidence_ratio, other_vars>>
    /\ UNCHANGED <<stab_vars, dropout_at>>

\* one frame is yielded after the duration has elapsed: break, __exit__
FrameAfterDuration(hands, t) ==
    /\ pc = "streaming"
    /\ cam = "open"
    /\ t \in now..MaxTime
    /\ t - start_time > duration
    /\ now' = t
    /\ pc' = "collected"
    /\ cam' = "none"
    /\ UNCHANGED <<raw_readings, start_time, duration, response, min_confidence_ratio, other_vars>>
    /\ UNCHANGED <<stab_vars, dropout_at>>

\* the capture stops being opened (device lost)
CameraDies ==
    /\ pc = "streaming"
    /\ cam = "open"
    /\ cam' = "dead"
    /\ UNCHANGED <<pc, raw_readings, start_time, now, duration, response, min_confidence_ratio, other_vars>>
    /\ UNCHANGED <<stab_vars, dropout_at>>

\* stream(): is_opened is false, the generator ends; __exit__ releases
StreamEnds ==
    /\ pc = "streaming"
    /\ cam # "open"
    /\ pc' = "collected"
    /\ cam' = "none"
    /\ UNCHANGED <<raw_readings, start_time, now, duration, response, min_confidence_ratio, other_vars>>
    /\ UNCHANGED <<stab_vars, dropout_at>>

\* mutant of DetectRaises: the exception leaves the tool, no record is returned
DetectRaisesUncaught(t) ==
    /\ pc = "streaming"
    /\ cam = "open"
    /\ t \in now..MaxTime
    /\ now' = t
    /\ cam' = "none"
    /\ pc' = "done"
    /\ UNCHANGED <<raw_readings, start_time, duration, response, min_confidence_ratio, other_vars>>
    /\ UNCHANGED stab_vars
    /\ dropout_at' = 0 - 1

\* detection raises inside the loop: __exit__ releases, the except branch returns
DetectRaises(t) ==
    /\ pc = "streaming"
    /\ cam = "open"
    /\ t \in now..MaxTime
    /\ now' = t
    /\ cam' = "none"
    /\ response' = ErrorResponse("detect")
    /\ pc' = "done"
    /\ UNCHANGED <<raw_readings, start_time, duration, min_confidence_ratio, other_vars>>
    /\ UNCHANGED stab_vars
    /\ dropout_at' = 0 - 1

\* mutant of Finish: the stabilizer is called while the stream goes on
FinishWhileStreaming ==
    /\ pc = "collected"
    /\ pc' = "streaming"
    /\ cam' = "open"
    /\ response' = StableResponse(raw_readings, min_confidence_ratio)
    /\ IF raw_readings = <<>>
       THEN UNCHANGED stab_vars
       ELSE /\ readings' = raw_readings
            /\ call_state' = "returned"
            /\ result' = _analyze_gesture_stability(raw_readings, min_confidence_ratio)
            /\ mode_path' = DominantPath(raw_readings)
    /\ UNCHANGED <<raw_readings, start_time, now, duration, min_confidence_ratio, other_vars>>
    /\ dropout_at' = 0 - 1

\* after the with block: the empty-window return, or the stabilizer and the
\* success record; json.dumps raises TypeError when is_dominant_fist is a
\* numpy.bool_, and the except branch returns the error record
Finish ==
    /\ pc = "collected"
    /\ pc' = "done"
    /\ \E numpy \in BOOLEAN :
          response' = IF NumpyDominantFist(raw_readings, numpy)
                      THEN ErrorResponse("Object of type bool_ is not JSON serializable")
                      ELSE StableResponse(raw_readings, min_confidence_ratio)
    /\ IF raw_readings = <<>>
       THEN UNCHANGED stab_vars
       ELSE /\ readings' = raw_readings
            /\ call_state' = "returned"
            /\ result' = _analyze_gesture_stability(raw_readings, min_confidence_ratio)
            /\ mode_path' = DominantPath(raw_readings)
    /\ UNCHANGED <<raw_readings, start_time, now, duration, cam, min_confidence_ratio, other_vars>>
    /\ dropout_at' = 0 - 1

Next ==
    \/ \E d \in Durations : Invoke(d)
    \/ \E t \in 0..MaxTime : OpenCamera(t)
    \/ \E t \in 0..MaxTime : OpenCameraFails(t)
    \/ \E t \in 0..MaxTime : ReadFails(t)
    \/ \E hands \in FrameHands, t \in 0..MaxTime, quit \in BOOLEAN : Frame(hands, t, quit)
    \/ \E hands \in FrameHands, t \in 0..MaxTime : FrameAfterDuration(hands, t)
    \/ CameraDies
    \/ StreamEnds
    \/ \E t \in 0..MaxTime : DetectRaises(t)
    \/ Finish

Spec == Init /\ [][Next]_vars

----------------------------------------------------------------------------
(* gesture_tracker/analysis.py                                             *)
(*                                                                         *)
(* Coordinates are integers in units of 1e-7, so a length compares with    *)
(* 1e-6 as its square compares with 100.  A landmark is a record with the  *)
(* fields x, y, z; a vector is a triple.  A call returns [value |-> ...]   *)
(* or raises, which is the record [raised |-> ...].                        *)

MaxComponent == 8    \* largest component of the vectors given to angle_deg
MaxLandmarks == 22   \* longest landmark list
MaxUlps == 1         \* largest rounding error of a float32 dot product, in ulps

LM(x, y, z) == [x |-> x, y |-> y, z |-> z]

_v3(lm) == <<lm.x, lm.y, lm.z>>

Sub(a, b) == <<a[1] - b[1], a[2] - b[2], a[3] - b[3]>>
Neg(a) == <<0 - a[1], 0 - a[2], 0 - a[3]>>
Dot(a, b) == a[1] * b[1] + a[2] * b[2] + a[3] * b[3]
\* np.linalg.norm(a), squared
NormSq(a) == Dot(a, a)

\* the literal 1e-6 of _unit and of is_fist, in units of 1e-7
UnitEps == 10
HandScaleEps == 10

\* _unit: the vector v / sqrt(NormSq(v)) when divided, v itself otherwise
_unit(v) == [v |-> v, divided |-> NormSq(v) > UnitEps * UnitEps]

Sgn(n) == IF n > 0 THEN 1 ELSE IF n < 0 THEN 0 - 1 ELSE 0

\* np.dot of two results of _unit, as the number
\*   sign * sqrt(num / den) * 1e-7^tiny + ulps * 2^-24
\* where tiny counts the operands _unit left undivided
UnitDot(u1, u2, e) ==
    LET d == Dot(u1.v, u2.v)
    IN  [sign |-> Sgn(d),
         num |-> d * d,
         den |-> (IF u1.divided THEN NormSq(u1.v) ELSE 1)
                   * (IF u2.divided THEN NormSq(u2.v) ELSE 1),
         tiny |-> (IF u1.divided THEN 0 ELSE 1) + (IF u2.divided THEN 0 ELSE 1),
         ulps |-> e]

\* |c| > 1: an undivided operand is shorter than 1e-6, which keeps |c| far below 1
Exceeds(c) ==
    /\ c.tiny = 0
    /\ \/ c.num > c.den
       \/ c.num = c.den /\ c.sign * c.ulps > 0

ExactlyOne(s) == [sign |-> s, num |-> 1, den |-> 1, tiny |-> 0, ulps |-> 0]

\* mutant of Clip: np.clip left out
ClipNone(c) == c

\* np.clip(c, -1.0, 1.0)
Clip(c) == IF Exceeds(c) THEN ExactlyOne(c.sign) ELSE c

\* np.degrees(np.arccos(c)): NaN outside [-1, 1], else the angle whose cosine is c
\* (a strictly decreasing map of [-1, 1] onto [0, 180])
ArccosDegrees(c) ==
    IF Exceeds(c) THEN [nan |-> TRUE] ELSE [nan |-> FALSE, cos |-> c]

\* angle_deg(a, b) when the float32 dot product is off by e ulps
angle_deg(a, b, e) == ArccosDegrees(Clip(UnitDot(_unit(a), _unit(b), e)))

\* is_right_angle, angles in tenths of a degree
is_right_angle_exclusive(a, mn, mx) == mn < a /\ a < mx

is_right_angle(a, mn, mx) == mn <= a /\ a <= mx

DefaultMinDeg == 750
DefaultMaxDeg == 1050

(* HandAnalyzer *)

WRIST == 0
THUMB_TIP == 4
THUMB_IP == 3
THUMB_MCP == 2
INDEX_PIP == 6
INDEX_TIP == 8
MIDDLE_PIP == 10
MIDDLE_TIP == 12
RING_PIP == 14
RING_TIP == 16
PINKY_PIP == 18
PINKY_TIP == 20

\* (tip, pip) of the four fingers other than the thumb
FINGERS == <<<<INDEX_TIP, INDEX_PIP>>, <<MIDDLE_TIP, MIDDLE_PIP>>,
             <<RING_TIP, RING_PIP>>, <<PINKY_TIP, PINKY_PIP>>>>

IndexError == [raised |-> "IndexError"]
Returns(x) == [value |-> x]

\* landmarks[i] of a Python list: defined for 0 <= i < len(landmarks)
Has(lms, i) == i + 1 <= Len(lms)
At(lms, i) == lms[i + 1]
HasAll(lms, idxs) == \A i \in idxs : Has(lms, i)

\* the indices a full pass of each method reads
FingerIndices == {FINGERS[k][j] : k \in DOMAIN FINGERS, j \in 1..2}

\* mutant of fingers_up: a finger level with its joint counts as up
fingers_up_inclusive(lms) ==
    IF ~HasAll(lms, {THUMB_IP, THUMB_MCP} \cup FingerIndices)
    THEN IndexError
    ELSE Returns([i \in 1..5 |->
            IF i = 1
            THEN At(lms, THUMB_IP).y <= At(lms, THUMB_MCP).y
            ELSE At(lms, FINGERS[i - 1][1]).y <= At(lms, FINGERS[i - 1][2]).y])

\* fingers_up: [thumb, index, middle, ring, pinky]
fingers_up(lms) ==
    IF ~HasAll(lms, {THUMB_IP, THUMB_MCP} \cup FingerIndices)
    THEN IndexError
    ELSE Returns([i \in 1..5 |->
            IF i = 1
            THEN At(lms, THUMB_IP).y < At(lms, THUMB_MCP).y
            ELSE At(lms, FINGERS[i - 1][1]).y < At(lms, FINGERS[i - 1][2]).y])

\* count_fingers: sum(fingers_up(landmarks))
count_fingers(lms) ==
    LET f == fingers_up(lms)
    IN  IF "raised" \in DOMAIN f THEN f ELSE Returns(CountFingers(f.value))

\* the literals 0.3 and 0.4 of thumb_condition
ThumbIndexRatio == Frac(3, 10)
ThumbPalmRatio == Frac(4, 10)

\* sqrt(distSq) < ratio * sqrt(scaleSq)
CloserThan(distSq, ratio, scaleSq) ==
    ratio[2] * ratio[2] * distSq < ratio[1] * ratio[1] * scaleSq

\* fingers_folded_count after the first k fingers of FINGERS
RECURSIVE FoldedCount(_, _)
FoldedCount(lms, k) ==
    IF k = 0 THEN 0
    ELSE LET wrist == _v3(At(lms, WRIST))
             tip_to_wrist == NormSq(Sub(_v3(At(lms, FINGERS[k][1])), wrist))
             pip_to_wrist == NormSq(Sub(_v3(At(lms, FINGERS[k][2])), wrist))
         IN  FoldedCount(lms, k - 1) + (IF tip_to_wrist < pip_to_wrist THEN 1 ELSE 0)

\* mutant of is_fist: the thumb must be near both the index finger and the wrist
is_fist_both(lms) ==
    IF ~HasAll(lms, {WRIST, 9}) THEN IndexError
    ELSE LET wrist == _v3(At(lms, WRIST))
             mid_mcp == _v3(At(lms, 9))
             hand_scale == NormSq(Sub(wrist, mid_mcp))
         IN  IF hand_scale < HandScaleEps * HandScaleEps THEN Returns(FALSE)
             ELSE IF ~HasAll(lms, FingerIndices \cup {THUMB_TIP, THUMB_IP, 5}) THEN IndexError
             ELSE LET fingers_condition == FoldedCount(lms, Len(FINGERS)) >= 3
                      thumb_tip == _v3(At(lms, THUMB_TIP))
                      index_mcp == _v3(At(lms, 5))
                      thumb_index_dist == NormSq(Sub(thumb_tip, index_mcp))
                      thumb_palm_dist == NormSq(Sub(thumb_tip, wrist))
                      thumb_condition ==
                          /\ CloserThan(thumb_index_dist, ThumbIndexRatio, hand_scale)
                          /\ CloserThan(thumb_palm_dist, ThumbPalmRatio, hand_scale)
                  IN  Returns(fingers_condition /\ thumb_condition)

\* is_fist; the lengths are kept squared
is_fist(lms) ==
    IF ~HasAll(lms, {WRIST, 9}) THEN IndexError
    ELSE LET wrist == _v3(At(lms, WRIST))
             mid_mcp == _v3(At(lms, 9))
             hand_scale == NormSq(Sub(wrist, mid_mcp))
         IN  IF hand_scale < HandScaleEps * HandScaleEps THEN Returns(FALSE)
             ELSE IF ~HasAll(lms, FingerIndices \cup {THUMB_TIP, THUMB_IP, 5}) THEN IndexError
             ELSE LET fingers_condition == FoldedCount(lms, Len(FINGERS)) >= 3
                      thumb_tip == _v3(At(lms, THUMB_TIP))
                      index_mcp == _v3(At(lms, 5))
                      thumb_index_dist == NormSq(Sub(thumb_tip, index_mcp))
                      thumb_palm_dist == NormSq(Sub(thumb_tip, wrist))
                      thumb_condition ==
                          \/ CloserThan(thumb_index_dist, ThumbIndexRatio, hand_scale)
                          \/ CloserThan(thumb_palm_dist, ThumbPalmRatio, hand_scale)
                  IN  Returns(fingers_condition /\ thumb_condition)

PalmIndices == {0, 5, 9, 13, 17}

\* palm_center: the mean x and y of the five palm points
palm_center(lms) ==
    IF ~HasAll(lms, PalmIndices) THEN IndexError
    ELSE LET sx == At(lms, 0).x + At(lms, 5).x + At(lms, 9).x + At(lms, 13).x + At(lms, 17).x
             sy == At(lms, 0).y + At(lms, 5).y + At(lms, 9).y + At(lms, 13).y + At(lms, 17).y
         IN  Returns(<<Frac(sx, Cardinality(PalmIndices)), Frac(sy, Cardinality(PalmIndices))>>)

\* compute_angles; e1 and e2 are the rounding errors of the two dot products
compute_angles(lms, e1, e2) ==
    IF ~HasAll(lms, {9, 12, 5, 8, 2, 4}) THEN IndexError
    ELSE LET palm_axis == Sub(_v3(At(lms, 9)), _v3(At(lms, 12)))
             index_axis == Sub(_v3(At(lms, 5)), _v3(At(lms, 8)))
             thumb_dir == Sub(_v3(At(lms, 4)), _v3(At(lms, 2)))
         IN  Returns([thumb_palm |-> angle_deg(thumb_dir, palm_axis, e1),
                      thumb_index |-> angle_deg(palm_axis, index_axis, e2)])

Raised(r) == "raised" \in DOMAIN r

\* the HandResult GestureTracker.detect builds for one detected hand
DetectHand(lms, e1, e2) ==
    LET f == is_fist(lms)
        p == palm_center(lms)
        u == fingers_up(lms)
        c == count_fingers(lms)
        a == compute_angles(lms, e1, e2)
    IN  IF Raised(f) THEN f
        ELSE IF Raised(p) THEN p
        ELSE IF Raised(u) THEN u
        ELSE IF Raised(c) THEN c
        ELSE IF Raised(a) THEN a
        ELSE Returns([landmarks |-> lms, is_fist |-> f.value, palm_center |-> p.value,
                      fingers_up |-> u.value, finger_count |-> c.value, angles |-> a.value])

(* Landmark lists.  The wrist is at the origin and y grows downwards, as   *)
(* in image coordinates.                                                   *)

\* x of the PIP joint of finger k of FINGERS; every PIP joint has y = -30
PipX == <<0 - 24, 0 - 8, 8, 24>>

\* where a finger tip can be, by its relation to the PIP joint:
\* above or below it (y), nearer to or farther from the wrist than it
Tip(k, at) ==
    CASE at = "up_far" -> LM(PipX[k], 0 - 40, 0)
      [] at = "up_near" -> LM(0, 0 - 31, 0)
      [] at = "down_near" -> LM(PipX[k] \div 2, 0 - 20, 0)
      [] at = "down_far" -> LM(2 * PipX[k], 0 - 29, 0)
      [] at = "on_pip" -> LM(PipX[k], 0 - 30, 0)

TipPlaces == <<{"up_far", "up_near", "down_near", "on_pip"},
               {"up_far", "down_near", "down_far"},
               {"up_far", "down_near"},
               {"up_far", "down_near"}>>

\* the thumb tip: within 0.3 of the hand scale of the index MCP, just outside,
\* within 0.4 of the hand scale of the wrist, far from both
ThumbTips == {LM(0 - 17, 0 - 19, 0), LM(0 - 18, 0 - 17, 0), LM(0 - 5, 0 - 5, 0), LM(0 - 40, 0 - 10, 0)}

\* y of the thumb IP joint: above, level with, below the thumb MCP joint (y = -10)
ThumbIpYs == {0 - 11, 0 - 10, 0 - 9}

\* the middle MCP joint: on the wrist, 0.9e-6 from it, 2e-6 from it
MidMcps == {LM(0, 0, 0), LM(0, 0 - 9, 0), LM(0, 0 - 20, 0)}

Pose(tips, thumb_ip_y, thumb_tip, mid_mcp) ==
    << LM(0, 0, 0),
       LM(0 - 10, 0 - 5, 0), LM(0 - 30, 0 - 10, 0), LM(0 - 35, thumb_ip_y, 0), thumb_tip,
       LM(0 - 12, 0 - 16, 0), LM(PipX[1], 0 - 30, 0), LM(PipX[1], 0 - 35, 0), Tip(1, tips[1]),
       mid_mcp, LM(PipX[2], 0 - 30, 0), LM(PipX[2], 0 - 35, 0), Tip(2, tips[2]),
       LM(6, 0 - 19, 0), LM(PipX[3], 0 - 30, 0), LM(PipX[3], 0 - 35, 0), Tip(3, tips[3]),
       LM(12, 0 - 16, 0), LM(PipX[4], 0 - 30, 0), LM(PipX[4], 0 - 35, 0), Tip(4, tips[4]) >>

\* the 21-point lists MediaPipe delivers
Poses ==
    {Pose(<<t1, t2, t3, t4>>, y, tt, m) :
        t1 \in TipPlaces[1], t2 \in TipPlaces[2], t3 \in TipPlaces[3], t4 \in TipPlaces[4],
        y \in ThumbIpYs, tt \in ThumbTips, m \in MidMcps}

NumLandmarks == 21

\* lists of any other length: a pose cut short or continued with points of a second hand
OpenHand(m) == Pose(<<"up_far", "up_far", "up_far", "up_far">>, 0 - 11, LM(0 - 40, 0 - 10, 0), m)
Fist(m) == Pose(<<"down_near", "down_near", "down_near", "down_near">>, 0 - 9, LM(0 - 5, 0 - 5, 0), m)

Resized(pose, n) ==
    IF n <= Len(pose) THEN SubSeq(pose, 1, n)
    ELSE pose \o [i \in 1..(n - Len(pose)) |-> LM(i, i, 0)]

OtherLengths ==
    {Resized(p, n) : p \in {OpenHand(m) : m \in MidMcps} \cup {Fist(m) : m \in MidMcps},
                     n \in (0..MaxLandmarks) \ {NumLandmarks}}

LandmarkLists == Poses \cup OtherLengths

Ulps == (0 - MaxUlps)..MaxUlps

InitExtractor ==
    /\ landmarks \in LandmarkLists
    /\ v1 = <<0, 0, 0>>
    /\ v2 = <<0, 0, 0>>
    /\ ang = 0
    /\ min_deg = DefaultMinDeg
    /\ max_deg = DefaultMaxDeg
    /\ fn = "none"
    /\ ret = <<>>
    /\ NoThinker
    /\ NoRobot
    /\ NoCamera

\* the arguments of the functions of analysis.py, which no call assigns
analysis_args == <<landmarks, v1, v2, ang, min_deg, max_deg>>

CallIsFist ==
    /\ fn = "none"
    /\ fn' = "is_fist"
    /\ ret' = is_fist(landmarks)
    /\ UNCHANGED analysis_args
    /\ UNCHANGED <<camera_vars, thinker_vars, robot_vars>>

CallPalmCenter ==
    /\ fn = "none"
    /\ fn' = "palm_center"
    /\ ret' = palm_center(landmarks)
    /\ UNCHANGED analysis_args
    /\ UNCHANGED <<camera_vars, thinker_vars, robot_vars>>

CallFingersUp ==
    /\ fn = "none"
    /\ fn' = "fingers_up"
    /\ ret' = fingers_up(landmarks)
    /\ UNCHANGED analysis_args
    /\ UNCHANGED <<camera_vars, thinker_vars, robot_vars>>

CallCountFingers ==
    /\ fn = "none"
    /\ fn' = "count_fingers"
    /\ ret' = count_fingers(landmarks)
    /\ UNCHANGED analysis_args
    /\ UNCHANGED <<camera_vars, thinker_vars, robot_vars>>

CallComputeAngles ==
    \E e1, e2 \in Ulps :
       /\ fn = "none"
       /\ fn' = "compute_angles"
       /\ ret' = compute_angles(landmarks, e1, e2)
       /\ UNCHANGED analysis_args
       /\ UNCHANGED <<camera_vars, thinker_vars, robot_vars>>

\* the hands branch of GestureTracker.detect for one hand
Detect ==
    \E e1, e2 \in Ulps :
       /\ fn = "none"
       /\ fn' = "detect"
       /\ ret' = DetectHand(landmarks, e1, e2)
       /\ UNCHANGED analysis_args
       /\ UNCHANGED <<camera_vars, thinker_vars, robot_vars>>

NextExtractor ==
    \/ CallIsFist
    \/ CallPalmCenter
    \/ CallFingersUp
    \/ CallCountFingers
    \/ CallComputeAngles
    \/ Detect

SpecExtractor == InitExtractor /\ [][NextExtractor]_vars

(* angle_deg and _unit on their own *)

Components == {0 - MaxComponent, 0 - 1, 0, 1, MaxComponent}
Vectors == {<<x, y, z>> : x \in Components, y \in Components, z \in Components}

InitAngle ==
    /\ landmarks = <<>>
    /\ v1 \in Vectors
    /\ v2 \in Vectors
    /\ ang = 0
    /\ min_deg = DefaultMinDeg
    /\ max_deg = DefaultMaxDeg
    /\ fn = "none"
    /\ ret = <<>>
    /\ NoThinker
    /\ NoRobot
    /\ NoCamera

CallUnit ==
    /\ fn = "none"
    /\ fn' = "_unit"
    /\ ret' = Returns(_unit(v1))
    /\ UNCHANGED analysis_args
    /\ UNCHANGED <<camera_vars, thinker_vars, robot_vars>>

CallAngleDeg ==
    \E e \in Ulps :
       /\ fn = "none"
       /\ fn' = "angle_deg"
       /\ ret' = Returns(angle_deg(v1, v2, e))
       /\ UNCHANGED analysis_args
       /\ UNCHANGED <<camera_vars, thinker_vars, robot_vars>>

NextAngle == CallUnit \/ CallAngleDeg

SpecAngle == InitAngle /\ [][NextAngle]_vars

(* is_right_angle on its own *)

Angles == {0, 10, 749, 750, 751, 899, 900, 901, 1049, 1050, 1051, 1790, 1800}
MinDegs == {DefaultMinDeg, 600, 900}
MaxDegs == {DefaultMaxDeg, 900, 1200}

InitRightAngle ==
    /\ landmarks = <<>>
    /\ v1 = <<0, 0, 0>>
    /\ v2 = <<0, 0, 0>>
    /\ ang \in Angles
    /\ min_deg \in MinDegs
    /\ max_deg \in MaxDegs
    /\ fn = "none"
    /\ ret = <<>>
    /\ NoThinker
    /\ NoRobot
    /\ NoCamera

\* is_right_angle(ang, min_deg, max_deg)
CallIsRightAngle ==
    /\ fn = "none"
    /\ fn' = "is_right_angle"
    /\ ret' = Returns(is_right_angle(ang, min_deg, max_deg))
    /\ UNCHANGED analysis_args
    /\ UNCHANGED <<camera_vars, thinker_vars, robot_vars>>

\* is_right_angle(ang): both bounds defaulted
CallIsRightAngleDefault ==
    /\ fn = "none"
    /\ fn' = "is_right_angle_default"
    /\ ret' = Returns(is_right_angle(ang, DefaultMinDeg, DefaultMaxDeg))
    /\ UNCHANGED analysis_args
    /\ UNCHANGED <<camera_vars, thinker_vars, robot_vars>>

NextRightAngle == CallIsRightAngle \/ CallIsRightAngleDefault

SpecRightAngle == InitRightAngle /\ [][NextRightAngle]_vars

----------------------------------------------------------------------------
(* tools/thinker_tool.py                                                   *)
(*                                                                         *)
(* Every start_drawing_session that succeeds starts a thread running       *)
(* _run_ui; ui[k] and canvas[k] are the state and the canvas of the k-th.  *)
(* Of the drawing tools draw_line and draw_rectangle are modelled; the     *)
(* others differ only in the tuple they put and the item they create.      *)

MaxSessions == 2   \* sessions started
MaxQueue == 2      \* commands waiting in _queue
MaxItems == 2      \* drawing commands waiting or drawn

\* the tuples the tools put into _queue
LineCmd == <<"line", 0, 0, 1, 1, "white", 3>>
RectangleCmd == <<"rectangle", 0, 0, 1, 1, "white", 3>>
ClearCmd == <<"clear">>
UndoCmd == <<"undo">>
RedoCmd == <<"redo">>
CloseCmd == <<"close">>

DrawingNames == {"line", "rectangle"}

\* the item canvas.create_line or canvas.create_rectangle adds for cmd
Item(cmd) ==
    IF cmd[1] = "line"
    THEN [type |-> "line", coords |-> <<cmd[2], cmd[3], cmd[4], cmd[5]>>,
          fill |-> cmd[6], width |-> cmd[7]]
    ELSE [type |-> "rectangle", coords |-> <<cmd[2], cmd[3], cmd[4], cmd[5]>>,
          outline |-> cmd[6], width |-> cmd[7]]

\* _execute_command: draws lines and polygons, nothing else
_execute_command(cv, cmd) ==
    IF cmd[1] = "line" THEN Append(cv, Item(cmd)) ELSE cv

\* for cmd_item in self._history: self._execute_command(canvas, cmd_item)
RECURSIVE Redrawn(_, _)
Redrawn(cv, history) ==
    IF history = <<>> THEN cv
    ELSE Redrawn(_execute_command(cv, Head(history)), Tail(history))

Front(s) == SubSeq(s, 1, Len(s) - 1)
Last(s) == s[Len(s)]

\* drawing commands waiting in the queue or drawn on a canvas
Pending == Len(SelectSeq(_queue, LAMBDA c : c[1] \in DrawingNames))
RECURSIVE Drawn(_)
Drawn(k) == IF k = 0 THEN 0 ELSE Len(canvas[k]) + Drawn(k - 1)

InitThinker ==
    /\ NoThinker
    /\ NoRobot
    /\ NoAnalysis
    /\ NoCamera

\* tool start_drawing_session, when no session is running
StartDrawingSession ==
    /\ ~ _running
    /\ Len(ui) < MaxSessions
    /\ _running' = TRUE
    /\ ui' = Append(ui, "started")
    /\ canvas' = Append(canvas, <<>>)
    /\ UNCHANGED <<_queue, _history, _redo_stack>>
    /\ UNCHANGED <<camera_vars, analysis_vars, robot_vars>>

\* _run_ui up to root.mainloop(): the window and its canvas exist
OpenWindow(k) ==
    /\ ui[k] = "started"
    /\ ui' = [ui EXCEPT ![k] = "mainloop"]
    /\ UNCHANGED <<_running, _queue, _history, _redo_stack, canvas>>
    /\ UNCHANGED <<camera_vars, analysis_vars, robot_vars>>

\* _run_ui when tk.Tk() raises: except, then finally
WindowFails(k) ==
    /\ ui[k] = "started"
    /\ ui' = [ui EXCEPT ![k] = "ended"]
    /\ _running' = FALSE
    /\ UNCHANGED <<_queue, _history, _redo_stack, canvas>>
    /\ UNCHANGED <<camera_vars, analysis_vars, robot_vars>>

\* tool draw_line: refused unless a session is running
DrawLine ==
    /\ _running
    /\ Len(_queue) < MaxQueue
    /\ Pending + Drawn(Len(canvas)) < MaxItems
    /\ _queue' = Append(_queue, LineCmd)
    /\ UNCHANGED <<_running, _history, _redo_stack, canvas, ui>>
    /\ UNCHANGED <<camera_vars, analysis_vars, robot_vars>>

\* tool draw_rectangle: refused unless a session is running
DrawRectangle ==
    /\ _running
    /\ Len(_queue) < MaxQueue
    /\ Pending + Drawn(Len(canvas)) < MaxItems
    /\ _queue' = Append(_queue, RectangleCmd)
    /\ UNCHANGED <<_running, _history, _redo_stack, canvas, ui>>
    /\ UNCHANGED <<camera_vars, analysis_vars, robot_vars>>

\* tool clear_canvas: refused unless a session is running
ClearCanvas ==
    /\ _running
    /\ Len(_queue) < MaxQueue
    /\ _queue' = Append(_queue, ClearCmd)
    /\ UNCHANGED <<_running, _history, _redo_stack, canvas, ui>>
    /\ UNCHANGED <<camera_vars, analysis_vars, robot_vars>>

\* tool undo: refused unless a session is running
Undo ==
    /\ _running
    /\ Len(_queue) < MaxQueue
    /\ _queue' = Append(_queue, UndoCmd)
    /\ UNCHANGED <<_running, _history, _redo_stack, canvas, ui>>
    /\ UNCHANGED <<camera_vars, analysis_vars, robot_vars>>

\* tool redo: refused unless a session is running
Redo ==
    /\ _running
    /\ Len(_queue) < MaxQueue
    /\ _queue' = Append(_queue, RedoCmd)
    /\ UNCHANGED <<_running, _history, _redo_stack, canvas, ui>>
    /\ UNCHANGED <<camera_vars, analysis_vars, robot_vars>>

\* tool stop_drawing_session: refused unless a session is running
StopDrawingSession ==
    /\ _running
    /\ Len(_queue) < MaxQueue
    /\ _queue' = Append(_queue, CloseCmd)
    /\ UNCHANGED <<_running, _history, _redo_stack, canvas, ui>>
    /\ UNCHANGED <<camera_vars, analysis_vars, robot_vars>>

\* process_queue of session k takes one command from the queue and obeys it
ProcessQueue(k) ==
    /\ ui[k] = "mainloop"
    /\ _queue # <<>>
    /\ _queue' = Tail(_queue)
    /\ LET cmd == Head(_queue)
           name == cmd[1]
       IN  CASE name \in DrawingNames ->
                  /\ canvas' = [canvas EXCEPT ![k] = Append(@, Item(cmd))]
                  /\ UNCHANGED <<_history, _redo_stack, ui>>
             [] name = "clear" ->
                  /\ canvas' = [canvas EXCEPT ![k] = <<>>]
                  /\ _history' = <<>>
                  /\ _redo_stack' = <<>>
                  /\ UNCHANGED ui
             [] name = "undo" ->
                  IF _history # <<>>
                  THEN /\ _redo_stack' = Append(_redo_stack, Last(_history))
                       /\ _history' = Front(_history)
                       /\ canvas' = [canvas EXCEPT ![k] = Redrawn(<<>>, Front(_history))]
                       /\ UNCHANGED ui
                  ELSE UNCHANGED <<_history, _redo_stack, canvas, ui>>
             [] name = "redo" ->
                  IF _redo_stack # <<>>
                  THEN /\ _redo_stack' = Front(_redo_stack)
                       /\ _history' = Append(_history, Last(_redo_stack))
                       /\ canvas' = [canvas EXCEPT ![k] = _execute_command(@, Last(_redo_stack))]
                       /\ UNCHANGED ui
                  ELSE UNCHANGED <<_history, _redo_stack, canvas, ui>>
             [] name = "close" ->
                  /\ ui' = [ui EXCEPT ![k] = "closing"]
                  /\ UNCHANGED <<_history, _redo_stack, canvas>>
    /\ UNCHANGED _running
    /\ UNCHANGED <<camera_vars, analysis_vars, robot_vars>>

\* on_close: the user closes the window of session k
OnClose(k) ==
    /\ ui[k] = "mainloop"
    /\ _running' = FALSE
    /\ ui' = [ui EXCEPT ![k] = "closing"]
    /\ UNCHANGED <<_queue, _history, _redo_stack, canvas>>
    /\ UNCHANGED <<camera_vars, analysis_vars, robot_vars>>

\* the window of session k is destroyed, mainloop returns, finally runs
EndUi(k) ==
    /\ ui[k] = "closing"
    /\ _running' = FALSE
    /\ ui' = [ui EXCEPT ![k] = "ended"]
    /\ UNCHANGED <<_queue, _history, _redo_stack, canvas>>
    /\ UNCHANGED <<camera_vars, analysis_vars, robot_vars>>

NextThinker ==
    \/ StartDrawingSession
    \/ \E k \in DOMAIN ui : OpenWindow(k)
    \/ \E k \in DOMAIN ui : WindowFails(k)
    \/ DrawLine
    \/ DrawRectangle
    \/ ClearCanvas
    \/ Undo
    \/ Redo
    \/ StopDrawingSession
    \/ \E k \in DOMAIN ui : ProcessQueue(k)
    \/ \E k \in DOMAIN ui : OnClose(k)
    \/ \E k \in DOMAIN ui : EndUi(k)

SpecThinker == InitThinker /\ [][NextThinker]_vars

----------------------------------------------------------------------------
(* tools/robot_tool.py and core/arduino_board.py                           *)
(*                                                                         *)
(* robot_connect, robot_disconnect and robot_send_command; the movement    *)
(* tools differ from robot_send_command only in the text they send.        *)
(* ArduinoTool has the same three fields, the same _ensure_connected and   *)
(* the same connect and disconnect tools.                                  *)

MaxWrites == 2     \* commands written to the serial port
MaxOpens == 3      \* calls of serial.Serial(...)

Ports == {"COM4", "COM5"}
RobotCommands == {"servo1 stop", "rotateBoth 360 360"}

\* ArduinoBoard(port, baudrate) after connect() returned True
Board(port) == [port |-> port, _is_connected |-> TRUE]

\* ToolResponse.ok / ToolResponse.fail of a robot tool
Reply(tool, success) == [tool |-> tool, success |-> success]

\* self._board and self._board.is_connected()
BoardConnected == _board # <<>> /\ _board._is_connected

InitRobot ==
    /\ NoRobot
    /\ NoThinker
    /\ NoAnalysis
    /\ NoCamera

\* tool robot_connect(port): serial.Serial(port, ...) succeeds (opened) or raises
RobotConnect(port, opened) ==
    /\ opens < MaxOpens
    /\ _port' = port
    /\ opens' = opens + 1
    /\ _board' = IF opened THEN Board(port) ELSE <<>>
    /\ reply' = Reply("robot_connect", opened)
    /\ disconnected' = FALSE
    /\ UNCHANGED wire
    /\ UNCHANGED <<camera_vars, analysis_vars, thinker_vars>>

\* mutant of RobotDisconnect: the port is forgotten with the board
RobotDisconnectForgetsPort ==
    /\ IF BoardConnected
       THEN /\ _board' = <<>>
            /\ _port' = ""
            /\ reply' = Reply("robot_disconnect", TRUE)
            /\ disconnected' = TRUE
       ELSE /\ reply' = Reply("robot_disconnect", FALSE)
            /\ UNCHANGED <<_board, _port, disconnected>>
    /\ UNCHANGED <<wire, opens>>
    /\ UNCHANGED <<camera_vars, analysis_vars, thinker_vars>>

\* tool robot_disconnect: the board is closed and dropped, _port is kept
RobotDisconnect ==
    /\ IF BoardConnected
       THEN /\ _board' = <<>>
            /\ reply' = Reply("robot_disconnect", TRUE)
            /\ disconnected' = TRUE
       ELSE /\ reply' = Reply("robot_disconnect", FALSE)
            /\ UNCHANGED <<_board, disconnected>>
    /\ UNCHANGED <<_port, wire, opens>>
    /\ UNCHANGED <<camera_vars, analysis_vars, thinker_vars>>

\* tool robot_send_command(command): _ensure_connected, which opens _port
\* when there is no connected board, then ArduinoBoard.send_command
RobotSendCommand(command, opened, written) ==
    /\ Len(wire) < MaxWrites
    /\ opens < MaxOpens
    /\ IF BoardConnected
       THEN /\ UNCHANGED <<_board, opens>>
            /\ wire' = IF written
                       THEN Append(wire, [port |-> _board.port, command |-> command])
                       ELSE wire
            /\ reply' = Reply("robot_send_command", written)
       ELSE IF _port = ""
       THEN /\ UNCHANGED <<_board, opens, wire>>
            /\ reply' = Reply("robot_send_command", FALSE)
       ELSE /\ opens' = opens + 1
            /\ _board' = IF opened THEN Board(_port) ELSE _board
            /\ wire' = IF opened /\ written
                       THEN Append(wire, [port |-> _port, command |-> command])
                       ELSE wire
            /\ reply' = Reply("robot_send_command", opened /\ written)
    /\ UNCHANGED <<_port, disconnected>>
    /\ UNCHANGED <<camera_vars, analysis_vars, thinker_vars>>

NextRobot ==
    \/ \E port \in Ports, opened \in BOOLEAN : RobotConnect(port, opened)
    \/ RobotDisconnect
    \/ \E command \in RobotCommands, opened \in BOOLEAN, written \in BOOLEAN :
          RobotSendCommand(command, opened, written)

SpecRobot == InitRobot /\ [][NextRobot]_vars

----------------------------------------------------------------------------
(* Properties of the stabilizer, checked under SpecStabilizer *)

Returned == call_state = "returned" /\ readings # <<>>

\* number of readings whose field f has value v
Agreeing(f, v) == Cardinality({i \in DOMAIN readings : readings[i][f] = v})

FirstAt(data, v) == CHOOSE i \in DOMAIN data : data[i] = v /\ \A j \in 1..(i - 1) : data[j] # v

Occ(data, v) == Cardinality({i \in DOMAIN data : data[i] = v})

\* v is a most frequent value of data and, among the equally frequent
\* values, the one that occurs first
EarliestMostFrequent(data, v) ==
    /\ \E i \in DOMAIN data : data[i] = v
    /\ \A i \in DOMAIN data :
          /\ Occ(data, data[i]) <= Occ(data, v)
          /\ (data[i] # v /\ Occ(data, data[i]) = Occ(data, v))
                => FirstAt(data, v) < FirstAt(data, data[i])

Tied(data) ==
    \E i, j \in DOMAIN data :
        /\ data[i] # data[j]
        /\ Occ(data, data[i]) = Occ(data, data[j])
        /\ \A k \in DOMAIN data : Occ(data, data[k]) <= Occ(data, data[i])

CountsOf == [i \in DOMAIN readings |-> readings[i].count]
FistsOf == [i \in DOMAIN readings |-> readings[i].is_fist]
Carrying == {i \in DOMAIN readings : "up" \in DOMAIN readings[i]}

FingerRuleLabel(c) ==
    CASE c = 0 -> "open_palm_or_no_hand"
      [] c = 1 -> "one_finger"
      [] c = 2 -> "two_fingers"
      [] c = 3 -> "3_fingers"
      [] c = 4 -> "4_fingers"
      [] c = 5 -> "open_hand"
      [] OTHER -> "?"

\* C1: for a non-empty window the label is that of the first matching rule in
\* the order unstable, fist, 0, 1, 2, 5, "<n>_fingers"; no other label occurs.
C1_LabelIsFirstMatchingRule ==
    Returned =>
        LET dc == result.details.dominant_finger_count
            df == result.details.is_dominant_fist
            N == Len(readings)
            a == Agreeing("count", dc)
            b == Agreeing("is_fist", df)
            unstable == (a + b) * min_confidence_ratio[2] < min_confidence_ratio[1] * 2 * N
            fist == df /\ 10 * b > 8 * N
        IN  /\ result.gesture = IF unstable THEN "unstable"
                                ELSE IF fist THEN "fist"
                                ELSE FingerRuleLabel(dc)
            /\ result.gesture \in {"unstable", "fist", "open_palm_or_no_hand", "one_finger",
                                   "two_fingers", "open_hand", "3_fingers", "4_fingers"}

C1_Witness ==
    /\ Returned
    /\ result.gesture = "4_fingers"
    /\ \E i \in DOMAIN readings : readings[i].is_fist

\* C2: dominant_count and dominant_fist are most frequent values, the earliest
\* occurring one among equally frequent values.
C2_DominantIsEarliestMode ==
    Returned =>
        /\ EarliestMostFrequent(CountsOf, result.details.dominant_finger_count)
        /\ EarliestMostFrequent(FistsOf, result.details.is_dominant_fist)

C2_Witness ==
    /\ Returned
    /\ Tied(CountsOf)
    /\ LET dc == result.details.dominant_finger_count
       IN  /\ dc = readings[1].count
           /\ dc # readings[Len(readings)].count
           /\ \E i \in DOMAIN readings : readings[i].count < dc
           /\ \E i \in DOMAIN readings : readings[i].count > dc

\* C3: confidence = (a + b) / (2N); it lies in [0, 1]; identical readings give
\* 1.0; unanimous non-fist with 70% agreeing counts gives 0.85 and the
\* finger-count label at ratio 0.7.
C3_ConfidenceIsMeanAgreement ==
    Returned =>
        LET dc == result.details.dominant_finger_count
            df == result.details.is_dominant_fist
            N == Len(readings)
            a == Agreeing("count", dc)
            b == Agreeing("is_fist", df)
            c == result.confidence
        IN  /\ c[2] > 0
            /\ c[1] * 2 * N = (a + b) * c[2]
            /\ 0 <= c[1] /\ c[1] <= c[2]
            /\ (\A i \in DOMAIN readings : readings[i] = readings[1]) => c[1] = c[2]
            /\ ( /\ \A i \in DOMAIN readings : ~ readings[i].is_fist
                 /\ 10 * a = 7 * N
                 /\ min_confidence_ratio = Frac(7, 10) )
               => /\ c[1] * 100 = 85 * c[2]
                  /\ result.gesture = FingerRuleLabel(dc)

C3_Witness ==
    /\ Returned
    /\ Len(readings) = 10
    /\ \A i \in DOMAIN readings : ~ readings[i].is_fist
    /\ Agreeing("count", 2) = 7
    /\ min_confidence_ratio = Frac(7, 10)
    /\ result.gesture = "two_fingers"
    /\ result.confidence[1] * 100 = 85 * result.confidence[2]

\* the two most frequent finger counts each occur in exactly half of the readings
EvenSplit ==
    \E i, j \in DOMAIN readings :
        /\ readings[i].count # readings[j].count
        /\ 2 * Agreeing("count", readings[i].count) = Len(readings)
        /\ 2 * Agreeing("count", readings[j].count) = Len(readings)

\* C4 as stated: an even split of finger counts gives confidence <= 0.5 and,
\* at ratio 0.7, the label "unstable".
C4_EvenSplitIsUnstable ==
    (Returned /\ EvenSplit) =>
        /\ 2 * result.confidence[1] <= result.confidence[2]
        /\ min_confidence_ratio = Frac(7, 10) => result.gesture = "unstable"

\* C4 amended: an even split gives count_confidence 0.5, so the confidence is
\* (0.5 + fist_confidence) / 2, between 0.5 and 0.75; at ratio 0.7 the label
\* is "unstable" exactly when fist_confidence < 0.9.
C4_EvenSplitConfidence ==
    (Returned /\ EvenSplit) =>
        LET N == Len(readings)
            b == Agreeing("is_fist", result.details.is_dominant_fist)
            c == result.confidence
        IN  /\ 2 * Agreeing("count", result.details.dominant_finger_count) = N
            /\ c[1] * 4 * N = (N + 2 * b) * c[2]
            /\ 2 * c[1] >= c[2]
            /\ 4 * c[1] <= 3 * c[2]
            /\ min_confidence_ratio = Frac(7, 10)
                  => (result.gesture = "unstable" <=> 10 * b < 9 * N)

C4_Witness ==
    /\ Returned
    /\ EvenSplit
    /\ Len(readings) = 10
    /\ min_confidence_ratio = Frac(7, 10)
    /\ result.gesture = "unstable"

\* C5: when the window is not unstable, the dominant is_fist is true and
\* fist_confidence > 0.8, the label is "fist" whatever dominant_count is; a
\* window of {is_fist: true, count: 0} readings is "fist", never
\* "open_palm_or_no_hand".
C5_FistRulePrecedesCountRules ==
    Returned =>
        LET dc == result.details.dominant_finger_count
            df == result.details.is_dominant_fist
            N == Len(readings)
            a == Agreeing("count", dc)
            b == Agreeing("is_fist", df)
            stable == (a + b) * min_confidence_ratio[2] >= min_confidence_ratio[1] * 2 * N
        IN  /\ (stable /\ df /\ 10 * b > 8 * N) => result.gesture = "fist"
            /\ (\A i \in DOMAIN readings : readings[i].is_fist /\ readings[i].count = 0)
                  => /\ result.gesture # "open_palm_or_no_hand"
                     /\ stable => result.gesture = "fist"

C5_Witness ==
    /\ Returned
    /\ result.gesture = "fist"
    /\ result.details.dominant_finger_count = 0
    /\ Len(readings) = 10
    /\ \A i \in DOMAIN readings : readings[i].is_fist /\ readings[i].count = 0

\* C6: the stabilizer called on an empty sequence returns, without raising,
\* gesture "none" with confidence 0.0.
C6_EmptyWindowIsNone ==
    (call_state # "pending" /\ readings = <<>>) =>
        /\ call_state # "raised"
        /\ result.gesture = "none"
        /\ result.confidence[1] = 0 /\ result.confidence[2] # 0

C6_Witness ==
    /\ call_state = "returned"
    /\ readings = <<>>
    /\ result.gesture = "none"

\* C7 as stated: every result, the empty window's included, carries a sample
\* count equal to the number of readings.
C7_SampleCountAlways ==
    call_state = "returned" =>
        /\ "raw_readings_count" \in DOMAIN result.details
        /\ result.details.raw_readings_count = Len(readings)

\* C7 amended: the result of a non-empty window carries raw_readings_count =
\* number of readings; the result of the empty window has empty details and
\* carries no sample count.
C7_SampleCountOfNonEmptyWindow ==
    call_state = "returned" =>
        IF readings # <<>>
        THEN /\ "raw_readings_count" \in DOMAIN result.details
             /\ result.details.raw_readings_count = Len(readings)
        ELSE DOMAIN result.details = {}

C7_Witness ==
    /\ call_state = "returned"
    /\ Len(readings) = 3
    /\ result.details.raw_readings_count = 3
    /\ Agreeing("count", result.details.dominant_finger_count) = 1

\* C8 as stated: active_fingers is the earliest most frequent pattern, and is
\* present and empty when no reading carries a pattern.
C8_ActiveFingersAlwaysPresent ==
    Returned =>
        /\ "active_fingers" \in DOMAIN result.details
        /\ IF Carrying # {}
           THEN EarliestMostFrequent(FingerPatterns(readings), result.details.active_fingers)
           ELSE result.details.active_fingers = <<>>

\* C8 amended: active_fingers is the earliest most frequent pattern among the
\* readings that carry one, and details has no active_fingers entry when no
\* reading carries a pattern.
C8_ActiveFingersIsModePattern ==
    Returned =>
        IF Carrying # {}
        THEN /\ "active_fingers" \in DOMAIN result.details
             /\ LET pats == [k \in 1..Cardinality(Carrying) |->
                               readings[CHOOSE i \in Carrying :
                                   Cardinality({j \in Carrying : j < i}) = k - 1].up]
                IN  EarliestMostFrequent(pats, result.details.active_fingers)
        ELSE "active_fingers" \notin DOMAIN result.details

C8_Witness ==
    /\ Returned
    /\ Carrying # {}
    /\ 1 \notin Carrying
    /\ Tied(FingerPatterns(readings))
    /\ result.details.active_fingers # <<>>
    /\ result.details.active_fingers # readings[Len(readings)].up

WellFormed(rs) ==
    \A i \in DOMAIN rs :
        /\ {"count", "is_fist"} \subseteq DOMAIN rs[i]
        /\ rs[i].count \in 0..5
        /\ rs[i].is_fist \in BOOLEAN

\* C10: on well-formed readings the stabilizer returns without raising, and
\* for a non-empty window the dominants come from mode(), never from the
\* except-branch fallback.
C10_TotalAndNoFallback ==
    (call_state # "pending" /\ WellFormed(readings)) =>
        /\ call_state # "raised"
        /\ readings # <<>> => mode_path = "mode"

C10_Witness ==
    /\ Returned
    /\ WellFormed(readings)
    /\ Tied(CountsOf)
    /\ mode_path = "mode"
    /\ result.details.dominant_finger_count = readings[1].count
    /\ result.details.dominant_finger_count # readings[Len(readings)].count

\* C9 as stated: when collection ends with no reading, the tool returns the
\* stabilizer's empty-window outcome, gesture "none" with confidence 0.0, as
\* a success.
C9_EmptyCollectionIsNone ==
    [][(pc = "collected" /\ raw_readings = <<>> /\ pc' = "done") =>
          /\ response'.success
          /\ response'.data.gesture = "none"
          /\ response'.data.confidence[1] = 0]_vars

\* C9 amended: when collection ends with no reading, the tool does not call
\* the stabilizer; it returns, as a success, gesture "no_hand_detected" with
\* confidence 0.
C9_EmptyCollectionIsNoHand ==
    [][(pc = "collected" /\ raw_readings = <<>> /\ pc' = "done") =>
          /\ response'.success
          /\ response'.data.gesture = "no_hand_detected"
          /\ response'.data.confidence[1] = 0
          /\ call_state' = "idle"]_vars

C9_Witness ==
    /\ pc = "done"
    /\ raw_readings = <<>>
    /\ now - start_time > duration
    /\ cam = "none"
    /\ response.success
    /\ response.data.gesture = "no_hand_detected"

----------------------------------------------------------------------------
(* Frame, ordering and threshold properties of the stabilizer and the tool *)

\* C11: a call of the stabilizer leaves the readings list, every reading and
\* the CameraTool fields unchanged, so a second call on the same readings
\* returns the same result.
C11_StabilizerLeavesInputUnchanged ==
    [][(call_state \in {"pending", "returned"} /\ call_state' # call_state) =>
          /\ readings' = readings
          /\ min_confidence_ratio' = min_confidence_ratio
          /\ stability_window_seconds' = stability_window_seconds
          /\ call_state' = "returned_again" => result' = first_result']_vars

C11_Witness ==
    /\ call_state = "returned_again"
    /\ Len(readings) >= 2
    /\ result = first_result
    /\ result.details.raw_readings_count = Len(readings)
    /\ stability_window_seconds = DefaultStabilityWindowSeconds

\* the readings with every timestamp set to 0
Untimed(rs) == [i \in DOMAIN rs |-> [rs[i] EXCEPT !.timestamp = 0]]

\* C12: the result is a function of the readings without their timestamps,
\* and every invocation starts from an empty window: its result is the
\* reduction of the readings of its own frames.
C12_TimestampsAndEarlierWindowsIgnored ==
    /\ [](call_state = "returned" =>
            result = _analyze_gesture_stability(Untimed(readings), min_confidence_ratio))
    /\ [][ /\ pc' = "opening" => raw_readings' = <<>>
           /\ (pc = "collected" /\ pc' = "done" /\ raw_readings # <<>>) =>
                 /\ readings' = raw_readings
                 /\ \A i \in DOMAIN raw_readings :
                       raw_readings[i].timestamp >= start_time ]_vars

C12_Witness ==
    /\ pc = "done"
    /\ call_state = "returned"
    /\ start_time > 0
    /\ Len(readings) >= 2
    /\ readings[1].timestamp # readings[Len(readings)].timestamp
    /\ "active_fingers" \in DOMAIN result.details
    /\ result.details.active_fingers # <<>>

\* C13: within one invocation the stabilizer is invoked at most once, only
\* when the collection loop has ended, and the window is not written after
\* that; the window is written only by the collection loop.
C13_CollectThenReduce ==
    [][ /\ (call_state' = "returned" /\ call_state # "returned")
              => (pc = "collected" /\ pc' = "done")
        /\ (call_state = "returned" /\ pc' # "opening")
              => UNCHANGED <<call_state, result, readings, raw_readings>>
        /\ raw_readings' # raw_readings
              => \/ pc' = "opening"
                 \/ /\ pc = "streaming"
                    /\ call_state = "idle"
                    /\ Len(raw_readings') > Len(raw_readings)
                    /\ SubSeq(raw_readings', 1, Len(raw_readings)) = raw_readings ]_vars

C13_Witness ==
    /\ pc = "done"
    /\ call_state = "returned"
    /\ readings = raw_readings
    /\ Len(raw_readings) = 2
    /\ raw_readings[1].timestamp < raw_readings[2].timestamp

----------------------------------------------------------------------------
(* Properties of gesture_tracker/analysis.py *)

Called(name) == fn = name
ReturnedFrom(name) == fn = name /\ ~ Raised(ret)

\* squared distance of two landmarks
DistSq(p, q) == (p.x - q.x) * (p.x - q.x) + (p.y - q.y) * (p.y - q.y) + (p.z - q.z) * (p.z - q.z)

\* C14: in every HandResult built by detect, fingers_up has five entries
\* [thumb, index, middle, ring, pinky]; the thumb is up iff the y of its IP
\* joint is strictly less than the y of its MCP joint, another finger iff the
\* y of its tip is strictly less than the y of its PIP joint; finger_count is
\* the number of true entries, so it lies in 0..5.
C14_FingerCountCountsFingersUp ==
    ReturnedFrom("detect") =>
        LET h == ret.value
            lm == h.landmarks
        IN  /\ Len(h.fingers_up) = 5
            /\ h.fingers_up[1] <=> lm[4].y < lm[3].y
            /\ h.fingers_up[2] <=> lm[9].y < lm[7].y
            /\ h.fingers_up[3] <=> lm[13].y < lm[11].y
            /\ h.fingers_up[4] <=> lm[17].y < lm[15].y
            /\ h.fingers_up[5] <=> lm[21].y < lm[19].y
            /\ h.finger_count = Cardinality({i \in 1..5 : h.fingers_up[i]})
            /\ h.finger_count \in 0..5

\* a hand whose thumb IP is level with its MCP and whose index tip is level
\* with its PIP, the other three fingers up
C14_Witness ==
    /\ ReturnedFrom("detect")
    /\ Len(landmarks) = NumLandmarks
    /\ landmarks[4].y = landmarks[3].y
    /\ landmarks[9].y = landmarks[7].y
    /\ ret.value.fingers_up = <<FALSE, FALSE, TRUE, TRUE, TRUE>>
    /\ ret.value.finger_count = 3

C16_RightAngleRangeIsInclusive ==
    /\ ReturnedFrom("is_right_angle") =>
          (ret.value <=> (min_deg <= ang /\ ang <= max_deg))
    /\ ReturnedFrom("is_right_angle_default") =>
          /\ ang \in {750, 1050} => ret.value
          /\ ang \in {749, 1051} => ~ ret.value
          /\ ret.value <=> ang \in 750..1050

C16_Witness ==
    /\ ReturnedFrom("is_right_angle")
    /\ ang = min_deg
    /\ min_deg # DefaultMinDeg
    /\ ang < max_deg
    /\ ret.value

\* the cosine is 1 (s = 1) or -1 (s = -1) to within MaxUlps rounding steps
NearlyOne(c, s) ==
    /\ c.sign = s
    /\ c.tiny = 0
    /\ c.num = c.den
    /\ c.ulps * s \in (0 - MaxUlps)..0

\* both operands were left undivided and the cosine is s * |v|^2
SquaredLength(c, s, v) ==
    /\ c.tiny = 2
    /\ c.den = 1
    /\ c.num = NormSq(v) * NormSq(v)
    /\ c.sign = (IF NormSq(v) = 0 THEN 0 ELSE s)

\* the cosine is exactly 1 (s = 1) or -1 (s = -1): an angle of 0 or of 180 degrees
Exactly(c, s) ==
    /\ c.sign = s
    /\ c.tiny = 0
    /\ c.num = c.den
    /\ c.ulps = 0

\* C17 as stated: angle_deg never yields NaN and, for every nonzero v,
\* angle_deg(v, v) = 0 and angle_deg(v, -v) = 180; here even when the dot
\* product carries no rounding error.
C17_NonzeroSelfAngleIsExact ==
    (ReturnedFrom("angle_deg") /\ v1 # <<0, 0, 0>>) =>
        /\ ~ ret.value.nan
        /\ (v2 = v1 /\ ret.value.cos.ulps = 0) => Exactly(ret.value.cos, 1)
        /\ (v2 = Neg(v1) /\ ret.value.cos.ulps = 0) => Exactly(ret.value.cos, 0 - 1)

\* C17, amended: angle_deg never yields NaN and its cosine is in [-1, 1];
\* _unit leaves a vector no longer than 1e-6 (the zero vector included)
\* undivided; for v longer than 1e-6 the cosine of angle_deg(v, v) is 1 and
\* that of angle_deg(v, -v) is -1 to within the rounding of the dot product;
\* for v no longer than 1e-6 the cosine is |v|^2 or -|v|^2, an angle of
\* about 90 degrees.
C17_AngleIsClampedAndDegenerateIsNinety ==
    /\ ReturnedFrom("_unit") =>
          /\ ret.value.v = v1
          /\ ret.value.divided <=> NormSq(v1) > 100
    /\ Called("angle_deg") =>
          /\ ~ Raised(ret)
          /\ ~ ret.value.nan
          /\ ~ Exceeds(ret.value.cos)
          /\ (v2 = v1 /\ NormSq(v1) > 100) => NearlyOne(ret.value.cos, 1)
          /\ (v2 = Neg(v1) /\ NormSq(v1) > 100) => NearlyOne(ret.value.cos, 0 - 1)
          /\ (v2 = v1 /\ NormSq(v1) <= 100) => SquaredLength(ret.value.cos, 1, v1)
          /\ (v2 = Neg(v1) /\ NormSq(v1) <= 100) => SquaredLength(ret.value.cos, 0 - 1, v1)

\* the dot product of a unit vector with itself rounded above 1 and was clamped
C17_Witness ==
    /\ ReturnedFrom("angle_deg")
    /\ v2 = v1
    /\ NormSq(v1) > 100
    /\ ret.value = [nan |-> FALSE, cos |-> ExactlyOne(1)]
    /\ Exactly(ret.value.cos, 1)

----------------------------------------------------------------------------
(* Properties of ThinkerTool, checked under SpecThinker *)

\* session k is the only one whose thread has not ended, and its window is open
OnlySession(k) ==
    /\ ui[k] = "mainloop"
    /\ \A j \in DOMAIN ui : j # k => ui[j] = "ended"

\* the step in which process_queue takes a command of this name
Obeys(name) ==
    /\ _queue # <<>>
    /\ Head(_queue)[1] = name
    /\ _queue' = Tail(_queue)

\* C18: when the running session obeys an undo, the canvas loses the item of
\* the last drawing command and keeps the others.
C18_UndoRemovesLastDrawing ==
    [][\A k \in DOMAIN ui :
          (OnlySession(k) /\ Obeys("undo") /\ canvas[k] # <<>>) =>
              canvas'[k] = Front(canvas[k])]_vars

----------------------------------------------------------------------------
(* Properties of the stabilizer, continued *)

\* C19: a confidence exactly equal to min_confidence_ratio is not "unstable";
\* a dominant fist with fist_confidence exactly 0.8 is not "fist" and falls
\* through to the finger-count rules.
C19_ThresholdsAreStrict ==
    Returned =>
        LET dc == result.details.dominant_finger_count
            df == result.details.is_dominant_fist
            N == Len(readings)
            a == Agreeing("count", dc)
            b == Agreeing("is_fist", df)
            atRatio == (a + b) * min_confidence_ratio[2] = min_confidence_ratio[1] * 2 * N
            belowRatio == (a + b) * min_confidence_ratio[2] < min_confidence_ratio[1] * 2 * N
        IN  /\ atRatio => result.gesture # "unstable"
            /\ (df /\ 10 * b = 8 * N) =>
                  /\ result.gesture # "fist"
                  /\ ~ belowRatio => result.gesture = FingerRuleLabel(dc)

C19_Witness ==
    /\ Returned
    /\ Len(readings) = 10
    /\ Agreeing("is_fist", TRUE) = 8
    /\ result.details.is_dominant_fist
    /\ result.gesture = "open_palm_or_no_hand"

----------------------------------------------------------------------------
(* Properties of gesture_tracker/analysis.py, continued *)

\* the fingers of FINGERS whose tip is strictly nearer to the wrist than their PIP joint
FoldedFingers(lm) ==
    {k \in {8, 12, 16, 20} : DistSq(lm[k + 1], lm[1]) < DistSq(lm[k - 1], lm[1])}

\* the thumb tip is nearer than 0.30 hand scales to the index MCP joint
ThumbByIndex(lm) == 100 * DistSq(lm[5], lm[6]) < 9 * DistSq(lm[1], lm[10])
\* the thumb tip is nearer than 0.40 hand scales to the wrist
ThumbByWrist(lm) == 100 * DistSq(lm[5], lm[1]) < 16 * DistSq(lm[1], lm[10])

\* C20: on a 21-point list is_fist never raises; it returns false when the
\* wrist is nearer than 1e-6 to the middle MCP joint, and otherwise true
\* exactly when at least 3 of the 4 fingers are folded and the thumb tip is
\* near the index MCP joint or near the wrist.
C20_FistIsFoldedFingersAndThumb ==
    (Called("is_fist") /\ Len(landmarks) = NumLandmarks) =>
        /\ ~ Raised(ret)
        /\ DistSq(landmarks[1], landmarks[10]) < 100 => ret.value = FALSE
        /\ DistSq(landmarks[1], landmarks[10]) >= 100 =>
              (ret.value <=>
                  /\ Cardinality(FoldedFingers(landmarks)) >= 3
                  /\ ThumbByIndex(landmarks) \/ ThumbByWrist(landmarks))

\* a fist with exactly three folded fingers whose thumb is near the wrist only
C20_Witness ==
    /\ ReturnedFrom("is_fist")
    /\ Len(landmarks) = NumLandmarks
    /\ Cardinality(FoldedFingers(landmarks)) = 3
    /\ ~ ThumbByIndex(landmarks)
    /\ ThumbByWrist(landmarks)
    /\ ret.value = TRUE

----------------------------------------------------------------------------
(* Properties of camera_detect_gesture_stable, continued *)

\* C21: every reading of the window carries the time t of its frame with
\* t - start_time <= duration, and a frame observed after the duration has
\* elapsed ends collection and adds no reading.
C21_WindowIsBoundedByDuration ==
    /\ [](\A i \in DOMAIN raw_readings : raw_readings[i].timestamp - start_time <= duration)
    /\ [][(pc = "streaming" /\ raw_readings' # raw_readings) =>
             (/\ now' - start_time <= duration
              /\ \A i \in (Len(raw_readings) + 1)..Len(raw_readings') :
                     raw_readings'[i].timestamp = now')]_vars
    /\ [][(pc = "streaming" /\ cam = "open" /\ now' - start_time > duration
             /\ pc' = "collected") => (raw_readings' = raw_readings)]_vars

\* a reading taken exactly when the duration ran out is in the window, and a
\* later frame has ended collection
C21_Witness ==
    /\ pc = "collected"
    /\ raw_readings # <<>>
    /\ duration > 0
    /\ raw_readings[Len(raw_readings)].timestamp - start_time = duration
    /\ now - start_time > duration

\* s is an initial segment of w
Prefix(s, w) == Len(s) <= Len(w) /\ \A i \in DOMAIN s : w[i] = s[i]

\* C22: a frame without a hand appends no reading and does not end the
\* invocation with an error; the readings collected before it stay, in arrival
\* order, at the front of the window, later readings are appended behind
\* them, and the stabilizer is given that whole window.
C22_DropoutKeepsTheWindow ==
    /\ [](dropout_at <= Len(raw_readings))
    /\ [][(pc = "streaming" /\ dropout_at' # dropout_at /\ dropout_at' >= 0) =>
             (/\ raw_readings' = raw_readings
              /\ dropout_at' = Len(raw_readings)
              /\ response' = response
              /\ pc' \in {"streaming", "collected"})]_vars
    /\ [][(pc = "streaming" /\ pc' \in {"streaming", "collected"}) =>
             Prefix(raw_readings, raw_readings')]_vars
    /\ [][(pc = "collected" /\ pc' = "done" /\ raw_readings # <<>>) =>
             (readings' = raw_readings /\ call_state' = "returned")]_vars

\* a frame without a hand was seen between two readings, and both readings
\* are in the window that is about to be reduced
C22_Witness ==
    /\ pc = "collected"
    /\ dropout_at = 1
    /\ Len(raw_readings) = 2
    /\ raw_readings[1].timestamp < raw_readings[2].timestamp

\* C23: collection is bounded by the wall clock: a pass of the stream loop
\* made when more than `duration` has elapsed since start_time ends the
\* collection, whether the camera delivered a frame in that pass or the
\* read failed while the camera stayed open.
C23_PassAfterDurationEndsCollection ==
    [][(pc = "streaming" /\ cam = "open" /\ now' # now /\ now' - start_time > duration) =>
         pc' # "streaming"]_vars

----------------------------------------------------------------------------
(* Properties of _analyze_gesture_stability, continued *)

\* every reading of the window agrees on is_fist
UnanimousFist == \A i, j \in DOMAIN readings : readings[i].is_fist = readings[j].is_fist

\* C24: for a non-empty window of readings with finger_count in 0..5 the
\* dominant is_fist is held by at least half of the readings and the dominant
\* count by at least a sixth, and the confidence is at least 1/3; so the
\* label is not "unstable" when min_confidence_ratio <= 1/3, and a window
\* unanimous on is_fist is "unstable" at ratio 0.7 only if its dominant count
\* is held by fewer than 40% of the readings.
C24_ConfidenceFloor ==
    (Returned /\ WellFormed(readings)) =>
        /\ 2 * Occ(FistsOf, result.details.is_dominant_fist) >= Len(readings)
        /\ 6 * Occ(CountsOf, result.details.dominant_finger_count) >= Len(readings)
        /\ ~ FracLess(result.confidence, Frac(1, 3))
        /\ ~ FracLess(Frac(1, 3), min_confidence_ratio) => result.gesture # "unstable"
        /\ (UnanimousFist /\ min_confidence_ratio = DefaultMinConfidenceRatio
              /\ result.gesture = "unstable") =>
             5 * Occ(CountsOf, result.details.dominant_finger_count) < 2 * Len(readings)

\* six readings with six different counts, half of them fists: the confidence
\* is exactly 1/3 and at ratio 1/3 the label is not "unstable"
C24_Witness ==
    /\ Returned /\ WellFormed(readings)
    /\ Len(readings) = 6
    /\ Occ(CountsOf, result.details.dominant_finger_count) = 1
    /\ Occ(FistsOf, TRUE) = 3
    /\ min_confidence_ratio = Frac(1, 3)
    /\ ~ FracLess(Frac(1, 3), result.confidence)
    /\ result.gesture # "unstable"

\* every reading carries a pattern and its count is the number of names in it
Consistent(rs) ==
    \A i \in DOMAIN rs : "up" \in DOMAIN rs[i] /\ rs[i].count = Len(rs[i].up)

\* C25: dominant_finger_count is the vote over the counts and active_fingers
\* the vote over the patterns of the same window, each taken on its own; on a
\* window of internally consistent readings the number of names in
\* active_fingers equals dominant_finger_count exactly when some reading
\* with the winning pattern has the winning count, and not otherwise.
C25_TwoIndependentVotes ==
    (Returned /\ WellFormed(readings) /\ Consistent(readings)) =>
        /\ EarliestMostFrequent(CountsOf, result.details.dominant_finger_count)
        /\ "active_fingers" \in DOMAIN result.details
        /\ EarliestMostFrequent([i \in DOMAIN readings |-> readings[i].up],
                                result.details.active_fingers)
        /\ (Len(result.details.active_fingers) = result.details.dominant_finger_count)
             <=> (\E i \in DOMAIN readings :
                     /\ readings[i].up = result.details.active_fingers
                     /\ readings[i].count = result.details.dominant_finger_count)

\* a window of consistent readings whose result names three active fingers
\* next to a dominant finger count of two
C25_Witness ==
    /\ Returned /\ WellFormed(readings) /\ Consistent(readings)
    /\ result.details.dominant_finger_count = 2
    /\ Len(result.details.active_fingers) = 3

----------------------------------------------------------------------------
(* Properties of camera_detect_gesture_stable: errors and the camera *)

\* C26: the tool always returns a record: one with success = false has
\* data = null, one with success = true carries a gesture and a confidence,
\* and an invocation that ends while the camera is being opened or while
\* frames are read and detected (which only an exception does) returns
\* success = false.
C26_FailuresAreReturned ==
    /\ [](pc = "done" =>
            /\ response # NoResponse
            /\ response.success \in BOOLEAN
            /\ response.success => {"gesture", "confidence"} \subseteq DOMAIN response.data
            /\ ~ response.success => DOMAIN response.data = {})
    /\ [][(pc \in {"opening", "streaming"} /\ pc' = "done") =>
             (~ response'.success /\ DOMAIN response'.data = {})]_vars

\* detection raised after a reading had been collected: the record says
\* success = false and the stabilizer was not called
C26_Witness ==
    /\ pc = "done"
    /\ raw_readings # <<>>
    /\ call_state = "idle"
    /\ ~ response.success
    /\ response.data = None

\* C27: whichever way the collection loop is left (duration elapsed, quit
\* key, camera closed, exception) the capture has been released: it is
\* released when the stabilizer runs and when the tool returns, and no
\* capture is open after an invocation.
C27_CameraIsReleased ==
    /\ [](pc = "collected" => cam = "none")
    /\ [](pc = "done" => cam \in {"none", "unopened"})
    /\ [](call_state = "returned" => cam = "none")
    /\ [][(pc = "streaming" /\ pc' # "streaming") => cam' = "none"]_vars

\* the duration elapsed with a reading collected, and the camera is released
\* before the stabilizer is called
C27_Witness ==
    /\ pc = "collected"
    /\ raw_readings # <<>>
    /\ now - start_time > duration
    /\ call_state = "idle"
    /\ cam = "none"

----------------------------------------------------------------------------
(* Properties of ThinkerTool: sessions and the shared queue *)

\* the sessions whose _run_ui thread has not ended
AliveUi == {k \in DOMAIN ui : ui[k] # "ended"}

\* C28: _running is true exactly while a UI thread is alive; hence at most
\* one UI thread exists at any time, and while the window of a session is
\* open and nobody has closed it the drawing tools are not refused.
C28_RunningIffUiThreadAlive ==
    /\ _running <=> AliveUi # {}
    /\ Cardinality(AliveUi) <= 1
    /\ \A k \in DOMAIN ui : ui[k] \in {"started", "mainloop"} => _running

\* C29: a drawing command is rendered by the session that was running when
\* it was accepted and by no later one: when a session is started, no drawing
\* command accepted before is waiting in the queue.
C29_NoCommandLeftForNextSession ==
    [][Len(ui') > Len(ui) =>
         \A i \in DOMAIN _queue : _queue[i][1] \notin DrawingNames]_vars

----------------------------------------------------------------------------
(* Properties of RobotTool *)

\* C30: after robot_disconnect has succeeded no command is written to the
\* serial port until robot_connect is called again.
C30_NoWriteAfterDisconnect ==
    [][disconnected => wire' = wire]_vars

\* C30, amended: robot_disconnect drops the board but keeps the port, so a
\* later command is written only through a connected board on the remembered
\* port, reopened by _ensure_connected if need be; while no port is set a
\* command fails without opening a port and nothing is written.
C30_PortIsRememberedAndReopened ==
    /\ [](disconnected => _port # "")
    /\ [](reply = Reply("robot_disconnect", TRUE) => (_board = <<>> /\ disconnected))
    /\ [][wire' # wire =>
             (/\ reply' = Reply("robot_send_command", TRUE)
              /\ _board' = Board(_port)
              /\ Len(wire') = Len(wire) + 1
              /\ wire'[Len(wire')].port = _port
              /\ wire = SubSeq(wire', 1, Len(wire)))]_vars
    /\ [][_port = "" =>
             (/\ wire' = wire
              /\ reply'.tool = "robot_send_command" =>
                    (~ reply'.success /\ opens' = opens /\ _board' = <<>>))]_vars

\* since the last successful robot_disconnect robot_connect has not been
\* called, and the last tool call was a command that was written
C30_Witness ==
    /\ disconnected
    /\ reply = Reply("robot_send_command", TRUE)
    /\ wire # <<>>
    /\ _board = Board(_port)

====
